---- MODULE Spec2Model ----
(***************************************************************************)
(* react-native-puff-pop: the play-through state machine of PuffPop (the   *)
(* animate() callback, its loop, the mount/visibility effects, the unmount *)
(* cleanup) and the start/complete aggregation of PuffPopGroup.            *)
(*                                                                         *)
(* The host animation engine is the environment.  A composed animation is  *)
(* a runnable with start(callback) and stop(): once started it is          *)
(* "running" until the host delivers its completion callback; stop() on a  *)
(* running animation makes the host deliver the callback with              *)
(* finished=false; stop() on an animation that is not running does         *)
(* nothing.  Completion callbacks and timers are delivered asynchronously, *)
(* one per step.  The effects of one React commit run to completion in one *)
(* step (children before the parent, each component's effects in           *)
(* declaration order).  A layout event and the re-render it schedules are  *)
(* separate steps.                                                         *)
(*                                                                         *)
(* Spec is one standalone PuffPop, SpecGroup one PuffPopGroup.  SpecAnimate *)
(* takes a single animate() call alone: from every combination of props    *)
(* and state it composes the animation (delay and channel animations).     *)
(* SpecPlay follows the animated values of one PuffPop from construction   *)
(* through the enter on mount and the exits and enters of later changes of *)
(* visible (delay, channel animations, loop resets).  SpecStagger is one   *)
(* render of a PuffPopGroup handing out the enter and exit delays of its   *)
(* children.  SpecView is one render of a PuffPop building the transform   *)
(* list of its animated view.  Scale values are IEEE-754 doubles, held as  *)
(* two limbs in units of 2^-55; the other values are in hundredths.        *)
(***************************************************************************)
EXTENDS Integers, Sequences, FiniteSets, TLC

\* ------------------------------------------------------------------ bounds
\* animate() calls modelled per PuffPop instance
MaxCalls == 3
\* numeric loop counts range over -1..MaxLoop
MaxLoop == 2
\* finished iterations modelled for a loop that never ends by itself
MaxIter == 2
\* children of a PuffPopGroup
MaxChildren == 2
\* animate() calls modelled per tree (all the PuffPops of a group together)
MaxTreeCalls == 6
\* iterations modelled for a loop whose animated values are followed
MaxPlays == 2
\* changes of visible modelled after the first animation of a PuffPop whose
\* animated values are followed
MaxToggles == 2
\* children of the PuffPopGroup whose stagger delays are followed
MaxStaggered == 5

\* duration = 400 (default prop)
Duration == 400

Children == 0 .. (MaxChildren - 1)
CallIds == 1 .. MaxCalls
\* heights a layout event may report
LayoutHeights == {0, 100}

\* The loop prop: boolean | number.  num = FALSE: val 1 is true, val 0 is false.
LoopValues ==
  {[num |-> FALSE, val |-> 0], [num |-> FALSE, val |-> 1]}
    \cup {[num |-> TRUE, val |-> n] : n \in (-1) .. MaxLoop}
LoopDelays == {0, 500}

VARIABLES
  props,        \* the props of the rendered tree (shared by a group's children)
  grouped,      \* TRUE: the PuffPops are the children of one PuffPopGroup
  childCount,   \* number of PuffPop instances (1 when standalone)
  phase,        \* "constructed" (rendered, effects not yet run), "mounted", "unmounted"
  dir,          \* per PuffPop: refs, state and the animations its animate() calls built
  group,        \* PuffPopGroup refs: completedCount, hasCalledStart
  cb,           \* invocations of the top-level onAnimationStart / onAnimationComplete
  cycle,        \* per show cycle: top-level callbacks fired, children that reported
  build,        \* one animate() call taken alone: its inputs and the animation it composes
  play,         \* one PuffPop's animated values over one animate() call and its play-through
  stagger,      \* one render of a PuffPopGroup: its stagger props, the delays handed out
  view          \* one render of a PuffPop: the inputs and the transform style it builds

vars == <<props, grouped, childCount, phase, dir, group, cb, cycle, build, play, stagger, view>>

\* ------------------------------------------------------ animation objects
\* One record per animate() call: the composed `animation` of that call and,
\* for a loop, the runLoop closure (currentIteration, its pending timer).
\*   runs, fired: how often the animation was started / how often the closure
\*   invoked onAnimationComplete (observations, not read by the program).
NoAnim ==
  [status |-> "none", toVisible |-> FALSE, isLoop |-> FALSE, loopCount |-> 0,
   loopDelay |-> 0, currentIteration |-> 0, timer |-> FALSE,
   runs |-> 0, fired |-> 0]

InitDirector ==
  [hasAnimated |-> FALSE, loopAnimationRef |-> 0, loopTimeoutRef |-> 0,
   isReduceMotionEnabled |-> FALSE, measuredHeight |-> << >>,
   renderedHeight |-> << >>,
   calls |-> 0, starts |-> 0,
   anims |-> [k \in CallIds |-> NoAnim]]

\* loop is truthy: true, or a number other than 0
LoopTruthy(loop) == IF loop.num THEN loop.val # 0 ELSE loop.val = 1

\* const loopCount = typeof loop === 'number' ? loop : -1
LoopCountOf(loop) == IF loop.num THEN loop.val ELSE -1

\* effectiveDuration / effectiveExitDuration (exitDuration unset)
EffectiveDuration(p, d) ==
  IF p.respectReduceMotion /\ d.isReduceMotionEnabled THEN 0 ELSE Duration

\* loopAnimationRef.current.stop(): only a running animation is affected
StopAnim(anims, ref) ==
  IF ref # 0 /\ anims[ref].status = "running"
    THEN [anims EXCEPT ![ref].status = "stopping"]
    ELSE anims

\* clearTimeout(loopTimeoutRef.current): cancels the timer if still pending
ClearTimer(anims, ref) ==
  IF ref # 0 THEN [anims EXCEPT ![ref].timer = FALSE] ELSE anims

\* variant of RunLoop that announces a start on every iteration
RunLoopAnnouncesStart(d, k) ==
  [d EXCEPT !.loopAnimationRef = k,
            !.anims[k].status = "running",
            !.anims[k].runs = @ + 1,
            !.starts = @ + 1]

\* runLoop of the closure of call k: store the handle, start the animation
RunLoop(d, k) ==
  [d EXCEPT !.loopAnimationRef = k,
            !.anims[k].status = "running",
            !.anims[k].runs = @ + 1]

\* variant of LoopContinues that runs one iteration too many
LoopContinuesInclusive(iteration, loopCount) == loopCount = -1 \/ iteration <= loopCount

\* loopCount === -1 || currentIteration < loopCount
LoopContinues(iteration, loopCount) == loopCount = -1 \/ iteration < loopCount

\* variant of Animate whose loop branch drops the stored timer id without
\* clearTimeout
AnimateForgetsTimer(p, d, toVisible, hasOnStart) ==
  LET k == d.calls + 1
      fresh == [NoAnim EXCEPT !.toVisible = toVisible, !.loopDelay = p.loopDelay]
      d0 == [d EXCEPT !.calls = k,
                      !.starts = IF toVisible /\ hasOnStart THEN @ + 1 ELSE @]
  IN IF toVisible /\ LoopTruthy(p.loop)
       THEN LET stopped == StopAnim(d0.anims, d0.loopAnimationRef)
                d1 == [d0 EXCEPT
                         !.loopAnimationRef = 0,
                         !.loopTimeoutRef = 0,
                         !.anims = [stopped EXCEPT ![k] =
                                      [fresh EXCEPT !.isLoop = TRUE,
                                                    !.loopCount = LoopCountOf(p.loop)]]]
            IN RunLoop(d1, k)
       ELSE [d0 EXCEPT
               !.loopAnimationRef = 0,
               !.anims = [StopAnim(d0.anims, d0.loopAnimationRef) EXCEPT ![k] =
                            [fresh EXCEPT !.status = "running", !.runs = 1]]]

\* animate(toVisible) of one PuffPop rendered with props p; hasOnStart:
\* onAnimationStart is defined
Animate(p, d, toVisible, hasOnStart) ==
  LET k == d.calls + 1
      fresh == [NoAnim EXCEPT !.toVisible = toVisible, !.loopDelay = p.loopDelay]
      d0 == [d EXCEPT !.calls = k,
                      !.starts = IF toVisible /\ hasOnStart THEN @ + 1 ELSE @]
  IN IF toVisible /\ LoopTruthy(p.loop)
       THEN LET stopped == StopAnim(d0.anims, d0.loopAnimationRef)
                cleared == ClearTimer(stopped, d0.loopTimeoutRef)
                d1 == [d0 EXCEPT
                         !.loopAnimationRef = 0,
                         !.loopTimeoutRef = 0,
                         !.anims = [cleared EXCEPT ![k] =
                                      [fresh EXCEPT !.isLoop = TRUE,
                                                    !.loopCount = LoopCountOf(p.loop)]]]
            IN RunLoop(d1, k)
       ELSE [d0 EXCEPT
               !.loopAnimationRef = 0,
               !.anims = [StopAnim(d0.anims, d0.loopAnimationRef) EXCEPT ![k] =
                            [fresh EXCEPT !.status = "running", !.runs = 1]]]

\* variant of LoopCallback that does not read the finished flag
LoopCallbackIgnoresFinished(d, k, finished) ==
  LET a == d.anims[k]
      it == a.currentIteration + 1
      ended == [d EXCEPT !.anims[k].status = "idle"]
  IN IF LoopContinues(it, a.loopCount)
       THEN IF a.loopDelay > 0
         THEN [d |-> [ended EXCEPT
                        !.loopTimeoutRef = k,
                        !.anims = [ClearTimer(ended.anims, d.loopTimeoutRef) EXCEPT
                                     ![k].currentIteration = it,
                                     ![k].timer = TRUE]],
               complete |-> FALSE]
         ELSE [d |-> RunLoop([ended EXCEPT !.anims[k].currentIteration = it], k),
               complete |-> FALSE]
       ELSE [d |-> [ended EXCEPT !.loopAnimationRef = 0,
                                 !.anims[k].currentIteration = it,
                                 !.anims[k].fired = @ + 1],
             complete |-> TRUE]

\* The completion callback runLoop passes to animation.start, for the closure
\* of call k.  Result: the director and whether onAnimationComplete was invoked.
LoopCallback(d, k, finished) ==
  LET a == d.anims[k]
      it == a.currentIteration + 1
      ended == [d EXCEPT !.anims[k].status = "idle"]
  IN IF ~finished
       THEN [d |-> ended, complete |-> FALSE]
       ELSE IF LoopContinues(it, a.loopCount)
         THEN IF a.loopDelay > 0
           THEN [d |-> [ended EXCEPT
                          !.loopTimeoutRef = k,
                          !.anims = [ClearTimer(ended.anims, d.loopTimeoutRef) EXCEPT
                                       ![k].currentIteration = it,
                                       ![k].timer = TRUE]],
                 complete |-> FALSE]
           ELSE [d |-> RunLoop([ended EXCEPT !.anims[k].currentIteration = it], k),
                 complete |-> FALSE]
         ELSE [d |-> [ended EXCEPT !.loopAnimationRef = 0,
                                   !.anims[k].currentIteration = it,
                                   !.anims[k].fired = @ + 1],
               complete |-> TRUE]

\* variant of OnceCallback that reports completion only of an animation that
\* ran to its end
OnceCallbackIfFinished(d, k, finished) ==
  [d |-> [d EXCEPT !.anims[k].status = "idle",
                   !.anims[k].fired = IF d.anims[k].toVisible /\ finished THEN @ + 1 ELSE @],
   complete |-> d.anims[k].toVisible /\ finished]

\* variant of OnceCallback that reports completion in both directions
OnceCallbackBothDirections(d, k, finished) ==
  [d |-> [d EXCEPT !.anims[k].status = "idle",
                   !.anims[k].fired = @ + 1],
   complete |-> TRUE]

\* The completion callback of the non-loop branch: the finished flag is not read
OnceCallback(d, k, finished) ==
  [d |-> [d EXCEPT !.anims[k].status = "idle",
                   !.anims[k].fired = IF d.anims[k].toVisible THEN @ + 1 ELSE @],
   complete |-> d.anims[k].toVisible]

\* The two effects of PuffPop that call animate, in declaration order:
\* "Handle initial mount animation", then "Handle visibility changes after mount"
RunEffects(p, d, hasOnStart) ==
  LET d1 == IF p.animateOnMount /\ ~d.hasAnimated /\ p.visible
              THEN Animate(p, [d EXCEPT !.hasAnimated = TRUE], TRUE, hasOnStart)
              ELSE d
  IN IF d1.hasAnimated THEN Animate(p, d1, p.visible, hasOnStart) ELSE d1

\* variant of Cleanup that leaves the loop-delay timer pending
CleanupKeepsTimer(d) ==
  [d EXCEPT !.anims = StopAnim(d.anims, d.loopAnimationRef)]

\* "Cleanup loop animation and timeout on unmount"
Cleanup(d) ==
  [d EXCEPT !.anims = ClearTimer(StopAnim(d.anims, d.loopAnimationRef), d.loopTimeoutRef)]

\* ------------------------------------------- the animation animate() composes
\* Opacity, rotation and translation values are in hundredths: One is the value
\* 1, a rotation of -360 degrees is -36000.  intensity is in tenths.  With the
\* intensities 0, 0.5 and 1 every product table * clampedIntensity is exact.
One == 100
FullIntensity == 10

\* Scale values are IEEE-754 doubles in [0, 1], the one channel whose arithmetic
\* (1 - (1 - baseScale) * clampedIntensity) rounds.  A double is the pair
\* <<hi, lo>> that stands for (hi * Limb + lo) * 2^-55, Limb = 2^27.
Limb == 134217728
DoubleZero == <<0, 0>>
DoubleOne == <<268435456, 0>>
\* the doubles the literals 0.3, 0.5, 0.8, 0.6 (and the override 0.2) denote
Double03 == <<80530636, 107374182>>
Double05 == <<134217728, 0>>
Double08 == <<214748364, 107374184>>
Double06 == <<161061273, 80530636>>
Double02 == <<53687091, 26843546>>

\* Distance between neighbouring doubles around n, in units of 2^-55
Spacing(n) == IF n[1] >= Limb THEN 4 ELSE IF 2 * n[1] >= Limb THEN 2 ELSE 1

Carry(hi, lo) == IF lo >= Limb THEN <<hi + 1, lo - Limb>> ELSE <<hi, lo>>

\* The double nearest to the exact value n, ties to even
RoundToDouble(n) ==
  LET s == Spacing(n)
      r == n[2] % s
      down == <<n[1], n[2] - r>>
      up == Carry(n[1], n[2] - r + s)
  IN IF 2 * r < s THEN down
     ELSE IF 2 * r > s THEN up
     ELSE IF (n[2] \div s) % 2 = 0 THEN down ELSE up

\* 1 - x for a double x in [0, 1]
OneMinus(x) ==
  RoundToDouble(IF x[2] = 0 THEN <<DoubleOne[1] - x[1], 0>>
                            ELSE <<DoubleOne[1] - x[1] - 1, Limb - x[2]>>)

\* x * clampedIntensity for clampedIntensity 0, 0.5 or 1 (exact)
TimesIntensity(x, ci) ==
  CASE ci = 0 -> DoubleZero
    [] ci = FullIntensity -> x
    [] 2 * ci = FullIntensity ->
         <<x[1] \div 2, (x[1] % 2) * (Limb \div 2) + x[2] \div 2>>

Effects ==
  {"scale", "rotate", "fade", "slideUp", "slideDown", "slideLeft", "slideRight",
   "bounce", "flip", "zoom", "rotateScale", "shake", "pulse", "swing", "wobble",
   "elastic"}

\* An optional prop is << >> when not supplied and <<v>> when supplied: x ?? dflt
Opt(x, dflt) == IF x = << >> THEN dflt ELSE x[1]

GetEasing(type) ==
  CASE type = "linear" -> "linear"
    [] type = "easeIn" -> "in(ease)"
    [] type = "easeOut" -> "out(ease)"
    [] type = "easeInOut" -> "inOut(ease)"
    [] type = "spring" -> "out(back(1.5))"
    [] type = "bounce" -> "bounce"
    [] OTHER -> "out(ease)"

\* variant of GetEffectFlags in which wobble does not translate
GetEffectFlagsWobbleRotates(eff) ==
  [hasScale |-> eff \in {"scale", "bounce", "zoom", "rotateScale", "flip", "pulse", "elastic"},
   hasRotate |-> eff \in {"rotate", "rotateScale", "swing", "wobble"},
   hasFlip |-> eff = "flip",
   hasTranslateX |-> eff \in {"slideLeft", "slideRight", "shake"},
   hasTranslateY |-> eff \in {"slideUp", "slideDown", "bounce"}]

GetEffectFlags(eff) ==
  [hasScale |-> eff \in {"scale", "bounce", "zoom", "rotateScale", "flip", "pulse", "elastic"},
   hasRotate |-> eff \in {"rotate", "rotateScale", "swing", "wobble"},
   hasFlip |-> eff = "flip",
   hasTranslateX |-> eff \in {"slideLeft", "slideRight", "shake", "wobble"},
   hasTranslateY |-> eff \in {"slideUp", "slideDown", "bounce"}]

\* variant of GetInitialScale whose default branch returns 0
GetInitialScaleDefaultZero(effect, reverse) ==
  CASE effect = "bounce" -> Double03
    [] effect = "zoom" -> Double05
    [] effect = "flip" -> Double08
    [] effect = "pulse" -> Double06
    [] effect \in Effects \ {"scale", "rotateScale", "elastic"} -> DoubleOne
    [] OTHER -> DoubleZero

GetInitialScale(effect, reverse) ==
  CASE effect \in {"scale", "rotateScale", "elastic"} -> DoubleZero
    [] effect = "bounce" -> Double03
    [] effect = "zoom" -> Double05
    [] effect = "flip" -> Double08
    [] effect = "pulse" -> Double06
    [] OTHER -> DoubleOne

Multiplier(reverse) == IF reverse THEN -1 ELSE 1

GetInitialRotate(effect, reverse) ==
  CASE effect = "rotate" -> -36000 * Multiplier(reverse)
    [] effect = "rotateScale" -> -18000 * Multiplier(reverse)
    [] effect = "flip" -> -18000 * Multiplier(reverse)
    [] effect = "swing" -> -1500 * Multiplier(reverse)
    [] effect = "wobble" -> -500 * Multiplier(reverse)
    [] OTHER -> 0

GetInitialTranslateX(effect, reverse) ==
  CASE effect = "slideLeft" -> 10000 * Multiplier(reverse)
    [] effect = "slideRight" -> -10000 * Multiplier(reverse)
    [] effect = "shake" -> -1000 * Multiplier(reverse)
    [] effect = "wobble" -> -2500 * Multiplier(reverse)
    [] OTHER -> 0

\* variant of GetInitialTranslateY that does not look at reverse
GetInitialTranslateYUnreversed(effect, reverse) ==
  CASE effect = "slideUp" -> 5000
    [] effect = "slideDown" -> -5000
    [] effect = "bounce" -> 3000
    [] OTHER -> 0

GetInitialTranslateY(effect, reverse) ==
  CASE effect = "slideUp" -> 5000 * Multiplier(reverse)
    [] effect = "slideDown" -> -5000 * Multiplier(reverse)
    [] effect = "bounce" -> 3000 * Multiplier(reverse)
    [] OTHER -> 0

\* variant of ClampedIntensity with the two bounds exchanged:
\* Math.min(0, Math.max(1, intensity))
ClampedIntensitySwapped(c) ==
  LET hi == IF c.intensity > FullIntensity THEN c.intensity ELSE FullIntensity
  IN IF hi < 0 THEN hi ELSE 0

\* Math.max(0, Math.min(1, intensity))
ClampedIntensity(c) ==
  IF c.intensity < 0 THEN 0
  ELSE IF c.intensity > FullIntensity THEN FullIntensity ELSE c.intensity

\* v * clampedIntensity
Scaled(v, c) == (v * ClampedIntensity(c)) \div FullIntensity

\* initialOpacity ?? 0
GetInitialOpacityValue(c) == Opt(c.initialOpacity, 0)

GetInitialScaleValue(c, eff) ==
  IF c.initialScale # << >> THEN c.initialScale[1]
  ELSE OneMinus(TimesIntensity(OneMinus(GetInitialScale(eff, c.reverse)),
                               ClampedIntensity(c)))

\* variant of GetInitialRotateValue that scales a caller's initialRotate as well
GetInitialRotateValueScaled(c, eff) ==
  Scaled(IF c.initialRotate # << >> THEN c.initialRotate[1]
         ELSE GetInitialRotate(eff, c.reverse), c)

GetInitialRotateValue(c, eff) ==
  IF c.initialRotate # << >> THEN c.initialRotate[1]
  ELSE Scaled(GetInitialRotate(eff, c.reverse), c)

GetInitialTranslateXValue(c, eff) ==
  IF c.initialTranslateX # << >> THEN c.initialTranslateX[1]
  ELSE Scaled(GetInitialTranslateX(eff, c.reverse), c)

GetInitialTranslateYValue(c, eff) ==
  IF c.initialTranslateY # << >> THEN c.initialTranslateY[1]
  ELSE Scaled(GetInitialTranslateY(eff, c.reverse), c)

\* respectReduceMotion && isReduceMotionEnabled
ReduceMotion(c) == c.respectReduceMotion /\ c.isReduceMotionEnabled

EffectiveEnterDuration(c) == IF ReduceMotion(c) THEN 0 ELSE c.duration

EffectiveExitDuration(c) == IF ReduceMotion(c) THEN 0 ELSE Opt(c.exitDuration, c.duration)

\* variant of ExitEffectFlags that keeps the flags of the enter effect
ExitEffectFlagsOfEnter(c) == GetEffectFlags(c.effect)

\* exitEffect ? getEffectFlags(exitEffect) : effectFlags
ExitEffectFlags(c) ==
  IF c.exitEffect # << >> THEN GetEffectFlags(c.exitEffect[1]) ELSE GetEffectFlags(c.effect)

\* variant of ExitDelayProp that falls back to the enter delay
ExitDelayFromEnter(c) == Opt(c.exitDelay, c.delay)

\* the exitDelay parameter of PuffPop: exitDelay = 0
ExitDelayProp(c) == Opt(c.exitDelay, 0)

\* "Determine which effect settings to use based on direction"
Resolve(c, toVisible) ==
  [effect |-> IF toVisible THEN c.effect ELSE Opt(c.exitEffect, c.effect),
   duration |-> IF toVisible THEN EffectiveEnterDuration(c) ELSE EffectiveExitDuration(c),
   easing |-> IF toVisible THEN c.easing ELSE Opt(c.exitEasing, c.easing),
   delay |-> IF toVisible THEN c.delay ELSE ExitDelayProp(c),
   flags |-> IF toVisible THEN GetEffectFlags(c.effect) ELSE ExitEffectFlags(c)]

\* Animated.timing(value, {toValue, duration, easing, useNativeDriver})
Timing(value, toValue, duration, easing, native) ==
  [value |-> value, kind |-> "timing", toValue |-> toValue, duration |-> <<duration>>,
   easing |-> easing, useNativeDriver |-> native]

\* Animated.spring(value, {toValue, ...springConf}): no duration, no easing
Spring(value, toValue, native) ==
  [value |-> value, kind |-> "spring", toValue |-> toValue, duration |-> << >>,
   easing |-> "none", useNativeDriver |-> native]

\* createAnimation(value, toValue, customEasing)
CreateAnimation(c, r, value, toValue, easing) ==
  IF c.useSpring THEN Spring(value, toValue, c.skeleton)
  ELSE Timing(value, toValue, r.duration, easing, c.skeleton)

ScaleEasing(r) ==
  CASE r.effect = "bounce" -> "bounce"
    [] r.effect = "elastic" -> "elastic(1.5)"
    [] r.effect = "pulse" -> "out(back(3))"
    [] OTHER -> GetEasing(r.easing)

RotateEasing(r) ==
  CASE r.effect = "swing" -> "elastic(1.2)"
    [] r.effect = "wobble" -> "elastic(1.5)"
    [] OTHER -> GetEasing(r.easing)

TranslateXEasing(r) ==
  CASE r.effect = "shake" -> "elastic(3)"
    [] r.effect = "wobble" -> "elastic(1.5)"
    [] OTHER -> GetEasing(r.easing)

\* variant of HeightChannel that builds the height animation with createAnimation
HeightChannelCreated(c, r, toVisible) ==
  IF ~c.skeleton /\ c.measuredHeight # << >>
    THEN <<CreateAnimation(c, r, "height", IF toVisible THEN c.measuredHeight[1] ELSE 0,
                           GetEasing(r.easing))>>
    ELSE << >>

\* "Height animation for non-skeleton mode (always use timing)"
HeightChannel(c, r, toVisible) ==
  IF ~c.skeleton /\ c.measuredHeight # << >>
    THEN <<Timing("height", IF toVisible THEN c.measuredHeight[1] ELSE 0,
                  r.duration, GetEasing(r.easing), FALSE)>>
    ELSE << >>

\* variant of TransformChannels that animates the transform values of the enter effect
TransformChannelsOfEnterEffect(c, r, toVisible) ==
  LET f == GetEffectFlags(c.effect)
  IN (IF f.hasScale
        THEN <<CreateAnimation(c, r, "scale",
                 IF toVisible THEN DoubleOne ELSE GetInitialScaleValue(c, c.effect), ScaleEasing(r))>>
        ELSE << >>)
     \o (IF f.hasRotate \/ f.hasFlip
        THEN <<CreateAnimation(c, r, "rotate",
                 IF toVisible THEN 0 ELSE GetInitialRotateValue(c, c.effect), RotateEasing(r))>>
        ELSE << >>)
     \o (IF f.hasTranslateX
        THEN <<CreateAnimation(c, r, "translateX",
                 IF toVisible THEN 0 ELSE GetInitialTranslateXValue(c, c.effect),
                 TranslateXEasing(r))>>
        ELSE << >>)
     \o (IF f.hasTranslateY
        THEN <<CreateAnimation(c, r, "translateY",
                 IF toVisible THEN 0 ELSE GetInitialTranslateYValue(c, c.effect),
                 GetEasing(r.easing))>>
        ELSE << >>)

\* The scale, rotate, translateX and translateY animations pushed by animate
TransformChannels(c, r, toVisible) ==
  (IF r.flags.hasScale
     THEN <<CreateAnimation(c, r, "scale",
              IF toVisible THEN DoubleOne ELSE GetInitialScaleValue(c, r.effect), ScaleEasing(r))>>
     ELSE << >>)
  \o (IF r.flags.hasRotate \/ r.flags.hasFlip
     THEN <<CreateAnimation(c, r, "rotate",
              IF toVisible THEN 0 ELSE GetInitialRotateValue(c, r.effect), RotateEasing(r))>>
     ELSE << >>)
  \o (IF r.flags.hasTranslateX
     THEN <<CreateAnimation(c, r, "translateX",
              IF toVisible THEN 0 ELSE GetInitialTranslateXValue(c, r.effect),
              TranslateXEasing(r))>>
     ELSE << >>)
  \o (IF r.flags.hasTranslateY
     THEN <<CreateAnimation(c, r, "translateY",
              IF toVisible THEN 0 ELSE GetInitialTranslateYValue(c, r.effect),
              GetEasing(r.easing))>>
     ELSE << >>)

\* variant of ComposeAnimation that never puts the delay in front
ComposeAnimationUndelayed(c, toVisible) ==
  LET r == Resolve(c, toVisible)
  IN [delay |-> 0,
      channels |->
        <<Timing("opacity", IF toVisible THEN One ELSE 0, r.duration,
                 GetEasing(r.easing), c.skeleton)>>
          \o TransformChannels(c, r, toVisible)
          \o HeightChannel(c, r, toVisible)]

\* The animation animate(toVisible) composes from the props and state c:
\* Animated.parallel(channels), after Animated.delay(delay) when delay > 0
ComposeAnimation(c, toVisible) ==
  LET r == Resolve(c, toVisible)
  IN [delay |-> IF r.delay > 0 THEN r.delay ELSE 0,
      channels |->
        <<Timing("opacity", IF toVisible THEN One ELSE 0, r.duration,
                 GetEasing(r.easing), c.skeleton)>>
          \o TransformChannels(c, r, toVisible)
          \o HeightChannel(c, r, toVisible)]

\* -------------------------------------------------------------- PuffPopGroup
\* Callback state threaded through a commit: the group's refs and the counts of
\* top-level callback invocations.
Pack == [completedCount |-> group.completedCount, hasCalledStart |-> group.hasCalledStart,
         start |-> cb.start, complete |-> cb.complete]

\* handleChildStart
HandleChildStart(o) ==
  IF ~o.hasCalledStart
    THEN [o EXCEPT !.hasCalledStart = TRUE, !.start = @ + 1]
    ELSE o

\* handleChildComplete
HandleChildComplete(o) ==
  LET c == o.completedCount + 1
  IN [o EXCEPT !.completedCount = c,
               !.complete = IF c >= childCount THEN @ + 1 ELSE @]

\* onAnimationStart={index === 0 ? handleChildStart : undefined}; a standalone
\* PuffPop is given the caller's onAnimationStart
HasOnStart(i) == ~grouped \/ i = 0

\* One invocation of PuffPop i's onAnimationStart prop
ChildOnStart(i, o) ==
  IF grouped THEN HandleChildStart(o) ELSE [o EXCEPT !.start = @ + 1]

\* One invocation of PuffPop i's onAnimationComplete prop
ChildOnComplete(i, o) ==
  IF grouped THEN HandleChildComplete(o) ELSE [o EXCEPT !.complete = @ + 1]

\* "Reset counters when visibility changes"
ResetEffect(p, o) ==
  IF grouped /\ p.visible
    THEN [o EXCEPT !.completedCount = 0, !.hasCalledStart = FALSE]
    ELSE o

RECURSIVE StartsOf(_, _, _)
\* n invocations, one after the other, of PuffPop i's onAnimationStart
StartsOf(i, n, o) == IF n = 0 THEN o ELSE StartsOf(i, n - 1, ChildOnStart(i, o))

RECURSIVE CommitStarts(_, _, _, _)
\* The onAnimationStart invocations of one commit: the effects of child 0 run
\* before those of child 1, and so on.
CommitStarts(i, old, new, o) ==
  IF i >= childCount THEN o
  ELSE CommitStarts(i + 1, old, new,
                    StartsOf(i, new[i].starts - old[i].starts, o))

\* animate() calls RunEffects makes for a PuffPop in state d under props p
CallsNeeded(p, d) ==
  LET first == p.animateOnMount /\ ~d.hasAnimated /\ p.visible
  IN (IF first THEN 1 ELSE 0) + (IF first \/ d.hasAnimated THEN 1 ELSE 0)

RECURSIVE SumCalls(_, _)
\* animate() calls made by the PuffPops i..childCount-1 in the states `from`
SumCalls(i, from) ==
  IF i >= childCount THEN 0
  ELSE from[i].calls + SumCalls(i + 1, from)

\* ------------------------------------------------------------------ actions
PropsOf(visible, animateOnMount, loop, loopDelay, skeleton, respectReduceMotion) ==
  [visible |-> visible, animateOnMount |-> animateOnMount, loop |-> loop,
   loopDelay |-> loopDelay, skeleton |-> skeleton,
   respectReduceMotion |-> respectReduceMotion]

\* Inputs of animate(): the props (with the defaults of the parameter list) and
\* the state it reads
\* (exit: the exitEffect, exitDuration, exitEasing and exitDelay props; ms: skeleton and
\* measuredHeight; rm: respectReduceMotion and isReduceMotionEnabled)
ConfigOf(effect, exit, delay, useSpring, ms, rm, tuning) ==
  [effect |-> effect, exitEffect |-> exit.effect,
   duration |-> Duration, exitDuration |-> exit.duration,
   easing |-> "easeOut", exitEasing |-> exit.easing,
   delay |-> delay, exitDelay |-> exit.delay,
   useSpring |-> useSpring, skeleton |-> ms.skeleton, measuredHeight |-> ms.measuredHeight,
   respectReduceMotion |-> rm.respect,
   isReduceMotionEnabled |-> rm.enabled,
   reverse |-> tuning.reverse, intensity |-> tuning.intensity,
   initialOpacity |-> tuning.initialOpacity,
   initialScale |-> tuning.initialScale, initialRotate |-> tuning.initialRotate,
   initialTranslateX |-> tuning.initialTranslateX,
   initialTranslateY |-> tuning.initialTranslateY]

\* reverse, intensity and the initial-value overrides; custom: the five
\* overrides are supplied (0.5, 0.2, 45, -70, 12)
TuningOf(reverse, intensity, custom) ==
  [reverse |-> reverse, intensity |-> intensity,
   initialOpacity |-> IF custom THEN <<50>> ELSE << >>,
   initialScale |-> IF custom THEN <<Double02>> ELSE << >>,
   initialRotate |-> IF custom THEN <<4500>> ELSE << >>,
   initialTranslateX |-> IF custom THEN <<-7000>> ELSE << >>,
   initialTranslateY |-> IF custom THEN <<1200>> ELSE << >>]

\* reverse, intensity and the initial-value overrides: the defaults, a reversed
\* half-intensity effect, and custom initial values
Tunings ==
  {TuningOf(FALSE, FullIntensity, FALSE), TuningOf(TRUE, 5, FALSE),
   TuningOf(FALSE, FullIntensity, TRUE)}

ExitEffects == {<< >>, <<"fade">>, <<"bounce">>}
ExitDurations == {<< >>, <<200>>}
ExitEasings == {<< >>, <<"linear">>}
Delays == {0, 100}
ExitDelays == {<< >>, <<50>>}
\* skeleton and the measuredHeight it allows: nothing is measured with skeleton=true
Measurings ==
  {[skeleton |-> TRUE, measuredHeight |-> << >>],
   [skeleton |-> FALSE, measuredHeight |-> << >>],
   [skeleton |-> FALSE, measuredHeight |-> <<100>>]}
\* isReduceMotionEnabled is set only while respectReduceMotion is true
ReduceMotions ==
  {[respect |-> TRUE, enabled |-> FALSE], [respect |-> TRUE, enabled |-> TRUE],
   [respect |-> FALSE, enabled |-> FALSE]}

Configs ==
  {ConfigOf(e, [effect |-> xe, duration |-> xd, easing |-> xs, delay |-> xdl],
            dl, sp, ms, rm, t) :
     e \in Effects, xe \in ExitEffects, xd \in ExitDurations, xs \in ExitEasings,
     dl \in Delays, xdl \in ExitDelays, sp \in BOOLEAN, ms \in Measurings,
     rm \in ReduceMotions, t \in Tunings}

\* No animate() call is taken alone
NoBuild == [cfg |-> << >>, toVisible |-> TRUE, animation |-> << >>]

\* No PuffPop is played alone
NoPlay == [cfg |-> << >>]

\* No PuffPop is rendered for its transform
NoView == [rendered |-> FALSE, anchorPoint |-> ""]

\* PuffPopAnchorPoint, and a name outside it
AnchorPoints ==
  {"center", "top", "bottom", "left", "right", "topLeft", "topRight", "bottomLeft",
   "bottomRight", "unknown"}
\* measuredHeight: null (<< >>) or the height of the first layout event
MeasuredHeights == {<< >>, <<0>>, <<60>>, <<100>>}

\* getAnchorPointOffset, in halves: -1 is -0.5, 1 is 0.5
GetAnchorPointOffset(anchorPoint) ==
  CASE anchorPoint = "top" -> [x |-> 0, y |-> -1]
    [] anchorPoint = "bottom" -> [x |-> 0, y |-> 1]
    [] anchorPoint = "left" -> [x |-> -1, y |-> 0]
    [] anchorPoint = "right" -> [x |-> 1, y |-> 0]
    [] anchorPoint = "topLeft" -> [x |-> -1, y |-> -1]
    [] anchorPoint = "topRight" -> [x |-> 1, y |-> -1]
    [] anchorPoint = "bottomLeft" -> [x |-> -1, y |-> 1]
    [] anchorPoint = "bottomRight" -> [x |-> 1, y |-> 1]
    [] OTHER -> [x |-> 0, y |-> 0]

\* anchorOffset, in half pixels: offset * (measuredHeight ?? 100)
AnchorOffset(v) ==
  LET offset == GetAnchorPointOffset(v.anchorPoint)
      baseSize == Opt(v.measuredHeight, 100)
  IN [x |-> offset.x * baseSize, y |-> offset.y * baseSize]

\* A fixed translation of the transform style, by half pixels
Fixed(kind, by) == [kind |-> kind, animated |-> FALSE, by |-> by]
\* An entry of the transform style driven by an animated value
Animated(kind) == [kind |-> kind, animated |-> TRUE, by |-> 0]
\* if (anchorOffset.x !== 0) push translateX; if (anchorOffset.y !== 0) push translateY
AnchorTranslations(x, y) ==
  (IF x # 0 THEN <<Fixed("translateX", x)>> ELSE << >>)
  \o (IF y # 0 THEN <<Fixed("translateY", y)>> ELSE << >>)

\* variant of Transform that wraps the translations of the effect as well
TransformWrappingAll(v) ==
  LET f == GetEffectFlags(v.effect)
      o == AnchorOffset(v)
      needsAnchorOffset == v.anchorPoint # "center"
  IN (IF needsAnchorOffset THEN AnchorTranslations(-o.x, -o.y) ELSE << >>)
     \o (IF f.hasScale THEN <<Animated("scale")>> ELSE << >>)
     \o (IF f.hasRotate THEN <<Animated("rotate")>> ELSE << >>)
     \o (IF f.hasFlip THEN <<Animated("rotateY")>> ELSE << >>)
     \o (IF needsAnchorOffset THEN AnchorTranslations(o.x, o.y) ELSE << >>)
     \o (IF f.hasTranslateX THEN <<Animated("translateX")>> ELSE << >>)
     \o (IF f.hasTranslateY THEN <<Animated("translateY")>> ELSE << >>)

\* transform (useMemo): the entries of the transform style, in order
Transform(v) ==
  LET f == GetEffectFlags(v.effect)
      o == AnchorOffset(v)
      needsAnchorOffset == v.anchorPoint # "center" /\ (f.hasScale \/ f.hasRotate \/ f.hasFlip)
  IN (IF needsAnchorOffset THEN AnchorTranslations(-o.x, -o.y) ELSE << >>)
     \o (IF f.hasScale THEN <<Animated("scale")>> ELSE << >>)
     \o (IF f.hasRotate THEN <<Animated("rotate")>> ELSE << >>)
     \o (IF f.hasFlip THEN <<Animated("rotateY")>> ELSE << >>)
     \o (IF needsAnchorOffset THEN AnchorTranslations(o.x, o.y) ELSE << >>)
     \o (IF f.hasTranslateX THEN <<Animated("translateX")>> ELSE << >>)
     \o (IF f.hasTranslateY THEN <<Animated("translateY")>> ELSE << >>)

\* No PuffPopGroup is rendered for its delays
NoStagger == [childCount |-> 0]

\* The delays of the stagger are counted in half milliseconds: the center of an
\* even number of children lies between two of them
PerMs == 2

StaggerDirections == {"forward", "reverse", "center", "edges"}
StaggerDelays == {0, 10, 25, 100}
InitialDelays == {0, 200}
\* exitStaggerDelay = 0 is the default
ExitStaggerDelays == {0, 50}
\* exitStaggerDirection, << >> when the prop is not supplied
ExitStaggerDirections == {<< >>, <<"forward">>, <<"reverse">>, <<"center">>, <<"edges">>}
\* exitDelay of the group, << >> when the prop is not supplied
GroupExitDelays == {<< >>, <<30>>}

\* Math.abs
Abs(x) == IF x < 0 THEN -x ELSE x

\* variant of GetChildDelay whose edges direction measures from childCount / 2
GetChildDelayEdgesFromHalfCount(g, index) ==
  LET center == g.childCount - 1
      at == index * PerMs
      delayIndex == CASE g.staggerDirection = "reverse" -> (g.childCount - 1 - index) * PerMs
                      [] g.staggerDirection = "center" -> Abs(at - center)
                      [] g.staggerDirection = "edges" -> g.childCount - Abs(at - g.childCount)
                      [] OTHER -> at
  IN g.initialDelay * PerMs + delayIndex * g.staggerDelay

\* variant of GetChildDelay whose reverse direction counts from childCount
GetChildDelayReverseFromCount(g, index) ==
  LET center == g.childCount - 1
      at == index * PerMs
      delayIndex == CASE g.staggerDirection = "reverse" -> (g.childCount - index) * PerMs
                      [] g.staggerDirection = "center" -> Abs(at - center)
                      [] g.staggerDirection = "edges" -> center - Abs(at - center)
                      [] OTHER -> at
  IN g.initialDelay * PerMs + delayIndex * g.staggerDelay

\* variant of GetChildDelay that takes the child left of the middle for the center
GetChildDelayFromLowerMiddle(g, index) ==
  LET center == ((g.childCount - 1) \div 2) * PerMs
      at == index * PerMs
      delayIndex == CASE g.staggerDirection = "reverse" -> (g.childCount - 1 - index) * PerMs
                      [] g.staggerDirection = "center" -> Abs(at - center)
                      [] g.staggerDirection = "edges" -> center - Abs(at - center)
                      [] OTHER -> at
  IN g.initialDelay * PerMs + delayIndex * g.staggerDelay

\* getChildDelay(index), index from 0, in half milliseconds
GetChildDelay(g, index) ==
  LET center == g.childCount - 1
      at == index * PerMs
      delayIndex == CASE g.staggerDirection = "reverse" -> (g.childCount - 1 - index) * PerMs
                      [] g.staggerDirection = "center" -> Abs(at - center)
                      [] g.staggerDirection = "edges" -> center - Abs(at - center)
                      [] OTHER -> at
  IN g.initialDelay * PerMs + delayIndex * g.staggerDelay

\* variant of GetChildExitDelay whose default direction is forward
GetChildExitDelayDefaultForward(g, index) ==
  IF g.exitStaggerDelay = 0 THEN Opt(g.exitDelay, 0) * PerMs
  ELSE LET center == g.childCount - 1
           at == index * PerMs
           direction == Opt(g.exitStaggerDirection, "forward")
           delayIndex == CASE direction = "reverse" -> (g.childCount - 1 - index) * PerMs
                           [] direction = "center" -> Abs(at - center)
                           [] direction = "edges" -> center - Abs(at - center)
                           [] OTHER -> at
       IN Opt(g.exitDelay, 0) * PerMs + delayIndex * g.exitStaggerDelay

\* getChildExitDelay(index), index from 0, in half milliseconds
GetChildExitDelay(g, index) ==
  IF g.exitStaggerDelay = 0 THEN Opt(g.exitDelay, 0) * PerMs
  ELSE LET center == g.childCount - 1
           at == index * PerMs
           direction == Opt(g.exitStaggerDirection, "reverse")
           delayIndex == CASE direction = "forward" -> at
                           [] direction = "center" -> Abs(at - center)
                           [] direction = "edges" -> center - Abs(at - center)
                           [] OTHER -> (g.childCount - 1 - index) * PerMs
       IN Opt(g.exitDelay, 0) * PerMs + delayIndex * g.exitStaggerDelay

\* Effect names a caller may pass: PuffPopEffect and a name outside it
EffectNames == Effects \cup {"unknown"}
\* intensity inputs (tenths): below, at the ends of, inside and above [0, 1]
Intensities == {-1, 0, 5, 10, 11}

\* exitEffect of a PuffPop whose animated values are followed
PlayExitEffects == {<< >>, <<"slideUp">>}

PlayConfigs ==
  {ConfigOf(e, [effect |-> xe, duration |-> << >>, easing |-> << >>, delay |-> xdl],
            dl, FALSE, ms, [respect |-> TRUE, enabled |-> FALSE], TuningOf(rv, it, cu)) :
     e \in EffectNames, xe \in PlayExitEffects, dl \in Delays, xdl \in ExitDelays,
     ms \in Measurings, rv \in BOOLEAN, it \in Intensities, cu \in BOOLEAN}

\* The Animated.Value objects as created by the first render
ConstructValues(c, animateOnMount) ==
  [opacity |-> IF animateOnMount THEN GetInitialOpacityValue(c) ELSE One,
   scale |-> IF animateOnMount THEN GetInitialScaleValue(c, c.effect) ELSE DoubleOne,
   rotate |-> IF animateOnMount THEN GetInitialRotateValue(c, c.effect) ELSE 0,
   translateX |-> IF animateOnMount THEN GetInitialTranslateXValue(c, c.effect) ELSE 0,
   translateY |-> IF animateOnMount THEN GetInitialTranslateYValue(c, c.effect) ELSE 0,
   height |-> 0]

\* variant of ResetValues that leaves translateY and the height where they are
ResetValuesPartly(c, v) ==
  [v EXCEPT !.opacity = GetInitialOpacityValue(c),
            !.scale = GetInitialScaleValue(c, c.effect),
            !.rotate = GetInitialRotateValue(c, c.effect),
            !.translateX = GetInitialTranslateXValue(c, c.effect)]

\* resetValues
ResetValues(c, v) ==
  [v EXCEPT !.opacity = GetInitialOpacityValue(c),
            !.scale = GetInitialScaleValue(c, c.effect),
            !.rotate = GetInitialRotateValue(c, c.effect),
            !.translateX = GetInitialTranslateXValue(c, c.effect),
            !.translateY = GetInitialTranslateYValue(c, c.effect),
            !.height = IF ~c.skeleton /\ c.measuredHeight # << >> THEN 0 ELSE @]

\* The animated values the channel animations of a drive
AnimatedBy(a) == {a.channels[k].value : k \in DOMAIN a.channels}

\* The values once every channel animation of a has run to its end
Reached(v, a) ==
  [n \in DOMAIN v |->
     IF n \in AnimatedBy(a)
       THEN a.channels[CHOOSE k \in DOMAIN a.channels : a.channels[k].value = n].toValue
       ELSE v[n]]

\* animation.start(): Animated.sequence runs the delay, then the parallel block;
\* Animated.parallel starts its channel animations together
StartAnimation(pl, a) ==
  [pl EXCEPT !.stage = IF a.delay > 0 THEN "delaying" ELSE "playing",
             !.started = IF a.delay > 0 THEN {} ELSE AnimatedBy(a),
             !.waited = FALSE,
             !.from = pl.values,
             !.runs = @ + 1]

\* runLoop, as far as the animated values go: resetValues(), animation.start()
PlayRunLoop(pl) ==
  StartAnimation([pl EXCEPT !.values = ResetValues(pl.cfg, @)], pl.animation[1])

InitCommon ==
  /\ phase = "constructed"
  /\ dir = [i \in Children |-> InitDirector]
  /\ group = [completedCount |-> 0, hasCalledStart |-> FALSE]
  /\ cb = [start |-> 0, complete |-> 0]
  /\ cycle = [starts |-> 0, completes |-> 0, reported |-> {}]

\* One standalone PuffPop
Init ==
  /\ grouped = FALSE
  /\ childCount = 1
  /\ props \in {PropsOf(v, m, l, ld, sk, rm) :
                  v \in BOOLEAN, m \in BOOLEAN, l \in LoopValues,
                  ld \in LoopDelays, sk \in BOOLEAN, rm \in BOOLEAN}
  /\ InitCommon
  /\ build = NoBuild
  /\ play = NoPlay
  /\ stagger = NoStagger
  /\ view = NoView

\* One PuffPopGroup; it passes neither loop nor loopDelay to its children
InitGroup ==
  /\ grouped = TRUE
  /\ childCount \in 1 .. MaxChildren
  /\ props \in {PropsOf(v, m, [num |-> FALSE, val |-> 0], 0, sk, rm) :
                  v \in BOOLEAN, m \in BOOLEAN, sk \in BOOLEAN, rm \in BOOLEAN}
  /\ InitCommon
  /\ build = NoBuild
  /\ play = NoPlay
  /\ stagger = NoStagger
  /\ view = NoView

\* One animate(toVisible) call of a PuffPop, for every combination of inputs
InitAnimate ==
  /\ grouped = FALSE
  /\ childCount = 1
  /\ props = PropsOf(TRUE, TRUE, [num |-> FALSE, val |-> 0], 0, TRUE, TRUE)
  /\ InitCommon
  /\ build \in {[cfg |-> c, toVisible |-> b, animation |-> << >>] :
                  c \in Configs, b \in BOOLEAN}
  /\ play = NoPlay
  /\ stagger = NoStagger
  /\ view = NoView

\* One visible PuffPop after its first render, for every combination of inputs
InitPlay ==
  /\ grouped = FALSE
  /\ childCount = 1
  /\ props = PropsOf(TRUE, TRUE, [num |-> FALSE, val |-> 0], 0, TRUE, TRUE)
  /\ InitCommon
  /\ build = NoBuild
  /\ stagger = NoStagger
  /\ view = NoView
  /\ play \in {[cfg |-> c, animateOnMount |-> m, toVisible |-> TRUE, loop |-> l,
                 clampedIntensity |-> ClampedIntensity(c),
                 values |-> ConstructValues(c, m), from |-> ConstructValues(c, m),
                 animation |-> << >>, stage |-> "constructed",
                 started |-> {}, waited |-> FALSE, runs |-> 0, toggles |-> 0] :
                 c \in PlayConfigs, m \in BOOLEAN, l \in BOOLEAN}

\* A PuffPopGroup about to render its children, for every combination of the
\* stagger props
InitStagger ==
  /\ grouped = FALSE
  /\ childCount = 1
  /\ props = PropsOf(TRUE, TRUE, [num |-> FALSE, val |-> 0], 0, TRUE, TRUE)
  /\ InitCommon
  /\ build = NoBuild
  /\ play = NoPlay
  /\ view = NoView
  /\ stagger \in {[childCount |-> n, staggerDelay |-> sd, initialDelay |-> d0,
                    staggerDirection |-> sdir, delays |-> << >>,
                    exitDelay |-> xd, exitStaggerDelay |-> xsd,
                    exitStaggerDirection |-> xdir, exitDelays |-> << >>] :
                    n \in 1..MaxStaggered, sd \in StaggerDelays,
                    d0 \in InitialDelays, sdir \in StaggerDirections,
                    xd \in GroupExitDelays, xsd \in ExitStaggerDelays,
                    xdir \in ExitStaggerDirections}

\* A PuffPop about to be rendered, for every effect, anchor point and state of
\* the height measurement
InitView ==
  /\ grouped = FALSE
  /\ childCount = 1
  /\ props = PropsOf(TRUE, TRUE, [num |-> FALSE, val |-> 0], 0, TRUE, TRUE)
  /\ InitCommon
  /\ build = NoBuild
  /\ play = NoPlay
  /\ stagger = NoStagger
  /\ view \in {[rendered |-> FALSE, effect |-> e, anchorPoint |-> a, measuredHeight |-> h,
                 anchorOffset |-> [x |-> 0, y |-> 0], transform |-> << >>] :
                 e \in EffectNames, a \in AnchorPoints, h \in MeasuredHeights}

\* The commit of a render with props p in which the PuffPops in S re-run their
\* effects (from the states in `from`); parentRuns: the group's reset effect
\* runs too; opens: the commit opens a show cycle.
Commit(p, from, S, parentRuns, opens) ==
  LET new == [i \in Children |-> IF i \in S THEN RunEffects(p, from[i], HasOnStart(i))
                                            ELSE from[i]]
      o1 == CommitStarts(0, from, new, Pack)
      o2 == IF parentRuns THEN ResetEffect(p, o1) ELSE o1
      c0 == IF opens THEN [starts |-> 0, completes |-> 0, reported |-> {}] ELSE cycle
  IN /\ \A i \in S : from[i].calls + CallsNeeded(p, from[i]) <= MaxCalls
     /\ SumCalls(0, new) <= MaxTreeCalls
     /\ dir' = new
     /\ group' = [completedCount |-> o2.completedCount, hasCalledStart |-> o2.hasCalledStart]
     /\ cb' = [start |-> o2.start, complete |-> o2.complete]
     /\ cycle' = [c0 EXCEPT !.starts = @ + (o2.start - cb.start)]

Present == {i \in Children : i < childCount}

\* A render of a PuffPop reads its current state
Render(d) == [d EXCEPT !.renderedHeight = d.measuredHeight]

\* Every PuffPop of the tree renders
Rendered(from) == [i \in Children |-> IF i \in Present THEN Render(from[i]) ELSE from[i]]

\* First commit: every effect of every component runs
Mount ==
  /\ phase = "constructed"
  /\ phase' = "mounted"
  /\ Commit(props, dir, Present, TRUE, props.visible)
  /\ UNCHANGED <<build, play, stagger, view, props, grouped, childCount>>

\* The parent renders the tree with the other value of visible
SetVisible ==
  /\ phase = "mounted"
  /\ props' = [props EXCEPT !.visible = ~props.visible]
  /\ Commit(props', Rendered(dir), Present, TRUE, props'.visible)
  /\ UNCHANGED <<build, play, stagger, view, grouped, childCount, phase>>

\* The platform reports reduce motion v (the query resolves, or a
\* reduceMotionChanged event reaches every subscribed PuffPop):
\* setIsReduceMotionEnabled(v).  A PuffPop whose effectiveDuration changes gets a
\* new animate, and the effects that depend on animate run again.
ReduceMotionChanged ==
  \E v \in BOOLEAN :
    LET from == [i \in Children |->
                   IF i \in Present THEN [Render(dir[i]) EXCEPT !.isReduceMotionEnabled = v]
                                    ELSE dir[i]]
        S == {i \in Present : \/ EffectiveDuration(props, from[i]) # EffectiveDuration(props, dir[i])
                              \/ from[i].renderedHeight # dir[i].renderedHeight}
    IN /\ phase = "mounted"
       /\ props.respectReduceMotion
       /\ \E i \in Present : dir[i].isReduceMotionEnabled # v
       /\ Commit(props, from, S, FALSE, FALSE)
       /\ UNCHANGED <<build, play, stagger, view, props, grouped, childCount, phase>>

\* A layout event reaches the onLayout of the measuring view of PuffPop i.  The
\* view is rendered, and the test reads the measuredHeight, of the last render:
\* if (!skeleton && measuredHeight === null) setMeasuredHeight(height)
OnLayout ==
  \E i \in Present : \E h \in LayoutHeights :
    /\ phase = "mounted"
    /\ ~props.skeleton
    /\ dir[i].renderedHeight = << >>
    /\ dir' = [dir EXCEPT ![i].measuredHeight = <<h>>]
    /\ UNCHANGED <<build, play, stagger, view, props, grouped, childCount, phase, group, cb, cycle>>

\* PuffPop i re-renders with the height setMeasuredHeight stored: animate is a
\* new function, and the effects that depend on it run again
Rerender ==
  \E i \in Present :
    /\ phase = "mounted"
    /\ dir[i].measuredHeight # dir[i].renderedHeight
    /\ Commit(props, [dir EXCEPT ![i] = Render(dir[i])], {i}, FALSE, FALSE)
    /\ UNCHANGED <<build, play, stagger, view, props, grouped, childCount, phase>>

\* The host delivers the completion callback of animation k of PuffPop i
HostEnd ==
  \E i \in Present : \E k \in CallIds : \E finished \in BOOLEAN :
    LET a == dir[i].anims[k]
        r == IF a.isLoop THEN LoopCallback(dir[i], k, finished)
                         ELSE OnceCallback(dir[i], k, finished)
        o == IF r.complete THEN ChildOnComplete(i, Pack) ELSE Pack
    IN /\ a.status \in {"running", "stopping"}
       /\ a.status = "stopping" => ~finished
       /\ (a.isLoop /\ finished) => a.currentIteration < MaxIter
       /\ dir' = [dir EXCEPT ![i] = r.d]
       /\ group' = [completedCount |-> o.completedCount, hasCalledStart |-> o.hasCalledStart]
       /\ cb' = [start |-> o.start, complete |-> o.complete]
       /\ cycle' = [cycle EXCEPT !.completes = @ + (o.complete - cb.complete),
                                 !.reported = IF r.complete THEN @ \cup {i} ELSE @]
       /\ UNCHANGED <<build, play, stagger, view, props, grouped, childCount, phase>>

\* The loop-delay timer of the closure of call k fires: setTimeout(runLoop, loopDelay)
TimerFire ==
  \E i \in Present : \E k \in CallIds :
    /\ dir[i].anims[k].timer
    /\ dir' = [dir EXCEPT ![i] = RunLoop([dir[i] EXCEPT !.anims[k].timer = FALSE], k)]
    /\ UNCHANGED <<build, play, stagger, view, props, grouped, childCount, phase, group, cb, cycle>>

\* The tree unmounts: the cleanup of every PuffPop runs
Unmount ==
  /\ phase = "mounted"
  /\ phase' = "unmounted"
  /\ dir' = [i \in Children |-> IF i \in Present THEN Cleanup(dir[i]) ELSE dir[i]]
  /\ UNCHANGED <<build, play, stagger, view, props, grouped, childCount, group, cb, cycle>>

Next ==
  \/ Mount
  \/ SetVisible
  \/ ReduceMotionChanged
  \/ OnLayout
  \/ Rerender
  \/ HostEnd
  \/ TimerFire
  \/ Unmount

NextGroup ==
  \/ Mount
  \/ SetVisible
  \/ ReduceMotionChanged
  \/ OnLayout
  \/ Rerender
  \/ HostEnd
  \/ Unmount

\* animate() builds its animation from the inputs
Compose ==
  /\ build.cfg # << >>
  /\ build.animation = << >>
  /\ build' = [build EXCEPT !.animation = <<ComposeAnimation(build.cfg, build.toVisible)>>]
  /\ UNCHANGED <<props, grouped, childCount, phase, dir, group, cb, cycle, play, stagger, view>>

NextAnimate == Compose

\* The mount effect of a visible PuffPop with animateOnMount: animate(true)
\* composes the animation, then loops it or starts it once
PlayAnimate ==
  /\ play.cfg # << >>
  /\ play.stage = "constructed"
  /\ play.animateOnMount
  /\ LET a == ComposeAnimation(play.cfg, play.toVisible)
         built == [play EXCEPT !.animation = <<a>>]
     IN play' = IF play.toVisible /\ play.loop THEN PlayRunLoop(built)
                                               ELSE StartAnimation(built, a)
  /\ UNCHANGED <<props, grouped, childCount, phase, dir, group, cb, cycle, build, stagger, view>>

\* The host has run the Animated.delay of the sequence: the parallel block starts
PlayDelayElapsed ==
  /\ play.cfg # << >>
  /\ play.stage = "delaying"
  /\ play' = [play EXCEPT !.stage = "playing", !.waited = TRUE,
                          !.started = AnimatedBy(play.animation[1])]
  /\ UNCHANGED <<props, grouped, childCount, phase, dir, group, cb, cycle, build, stagger, view>>

\* The host has run every channel animation to its end (finished = true); a loop
\* goes on with its next iteration
PlayFinish ==
  /\ play.cfg # << >>
  /\ play.stage = "playing"
  /\ (play.toVisible /\ play.loop) => play.runs < MaxPlays
  /\ LET ended == [play EXCEPT !.values = Reached(@, play.animation[1]),
                               !.stage = "done"]
     IN play' = IF play.toVisible /\ play.loop THEN PlayRunLoop(ended) ELSE ended
  /\ UNCHANGED <<props, grouped, childCount, phase, dir, group, cb, cycle, build, stagger, view>>

\* visible changes after an animation has ended: the visibility effect calls
\* animate(visible), which composes and starts the animation of the new direction
PlayToggle ==
  /\ play.cfg # << >>
  /\ play.stage = "done"
  /\ play.toggles < MaxToggles
  /\ LET a == ComposeAnimation(play.cfg, ~play.toVisible)
         built == [play EXCEPT !.toVisible = ~@, !.animation = <<a>>, !.toggles = @ + 1]
     IN play' = IF built.toVisible /\ play.loop THEN PlayRunLoop(built)
                                                ELSE StartAnimation(built, a)
  /\ UNCHANGED <<props, grouped, childCount, phase, dir, group, cb, cycle, build, stagger, view>>

NextPlay ==
  \/ PlayAnimate
  \/ PlayDelayElapsed
  \/ PlayFinish
  \/ PlayToggle

Spec == Init /\ [][Next]_vars

SpecAnimate == InitAnimate /\ [][NextAnimate]_vars

SpecPlay == InitPlay /\ [][NextPlay]_vars

\* childArray.map: the next child is rendered with delay={getChildDelay(index)}
\* and exitDelay={getChildExitDelay(index)}
RenderChild ==
  /\ stagger.childCount > 0
  /\ Len(stagger.delays) < stagger.childCount
  /\ stagger' = [stagger EXCEPT
                   !.delays = Append(@, GetChildDelay(stagger, Len(stagger.delays))),
                   !.exitDelays = Append(@, GetChildExitDelay(stagger, Len(stagger.delays)))]
  /\ UNCHANGED <<props, grouped, childCount, phase, dir, group, cb, cycle, build, play, view>>

NextStagger == RenderChild

SpecStagger == InitStagger /\ [][NextStagger]_vars

\* A render: the anchorOffset and transform memos are computed
RenderTransform ==
  /\ view.anchorPoint # ""
  /\ ~view.rendered
  /\ view' = [view EXCEPT !.rendered = TRUE,
                          !.anchorOffset = AnchorOffset(view),
                          !.transform = Transform(view)]
  /\ UNCHANGED <<props, grouped, childCount, phase, dir, group, cb, cycle, build, play, stagger>>

NextView == RenderTransform

SpecView == InitView /\ [][NextView]_vars

SpecGroup == InitGroup /\ [][NextGroup]_vars

\* ------------------------------------------------------------------ claims
AnimOf(i, k) == dir[i].anims[k]

\* C1: for every numeric loop count n >= 1, the closure of an animate(true) call
\* starts its composed animation at most n times, invokes onAnimationComplete at
\* most once, and invokes it exactly when the n-th iteration has finished (by then
\* the animation has run exactly n times and nothing further is started or
\* scheduled).
C1_LoopRunsExactlyN ==
  \A i \in Present : \A k \in CallIds :
    (AnimOf(i, k).isLoop /\ AnimOf(i, k).loopCount >= 1) =>
      /\ AnimOf(i, k).runs <= AnimOf(i, k).loopCount
      /\ AnimOf(i, k).fired <= 1
      /\ (AnimOf(i, k).fired = 1 <=> AnimOf(i, k).currentIteration = AnimOf(i, k).loopCount)
      /\ AnimOf(i, k).fired = 1 =>
           /\ AnimOf(i, k).runs = AnimOf(i, k).loopCount
           /\ AnimOf(i, k).status = "idle"
           /\ ~AnimOf(i, k).timer

\* A loop of at least two iterations has run to its end and reported completion
C1_Witness ==
  \E k \in CallIds :
    /\ AnimOf(0, k).isLoop
    /\ AnimOf(0, k).loopCount >= 2
    /\ AnimOf(0, k).runs = AnimOf(0, k).loopCount
    /\ AnimOf(0, k).fired = 1

\* C2: once a later animate() call has been made (in either direction), an
\* earlier loop is neither running nor waiting on its loop-delay timer: every
\* animate() stops the in-flight loop animation and clears the pending timer.
C2_AnimateCancelsEarlierLoop ==
  \A i \in Present : \A k \in CallIds :
    (AnimOf(i, k).isLoop /\ k < dir[i].calls) =>
      (AnimOf(i, k).status # "running" /\ ~AnimOf(i, k).timer)

Running(i) == {k \in CallIds : AnimOf(i, k).status = "running"}

\* C3: in every reachable state at most one composed animation started by the
\* director is running for the subtree.
C3_AtMostOneRunning ==
  \A i \in Present : Cardinality(Running(i)) <= 1

\* C4: an animate() call made while the composed animation of an earlier
\* non-looping animate() call is in flight stops that animation: no non-loop
\* animation of an earlier call is still running after a later call.
C4_AnimateStopsEarlierOnce ==
  \A i \in Present : \A k \in CallIds :
    (AnimOf(i, k).status # "none" /\ ~AnimOf(i, k).isLoop /\ k < dir[i].calls) =>
      AnimOf(i, k).status # "running"

\* C5: no onAnimationStart or onAnimationComplete callback fires after the
\* component has unmounted.
C5_NoCallbackAfterUnmount ==
  [][phase = "unmounted" => cb' = cb]_vars

\* C6: after unmount no loop animation is running and no loop-delay timer is
\* pending (the in-flight iteration was stopped, the pending timer cleared), so
\* no loop iteration starts after unmount.
C6_UnmountEndsLoop ==
  phase = "unmounted" =>
    \A i \in Present : \A k \in CallIds :
      AnimOf(i, k).isLoop => (AnimOf(i, k).status # "running" /\ ~AnimOf(i, k).timer)

\* Unmounted while a loop waited in its loop delay: the timer the closure stored
\* was cleared before it fired (the next iteration is due and was never started)
C6_Witness ==
  /\ phase = "unmounted"
  /\ \E k \in CallIds :
       /\ AnimOf(0, k).isLoop
       /\ dir[0].loopTimeoutRef = k
       /\ ~AnimOf(0, k).timer
       /\ AnimOf(0, k).status = "idle"
       /\ AnimOf(0, k).currentIteration >= 1
       /\ AnimOf(0, k).runs = AnimOf(0, k).currentIteration
       /\ LoopContinues(AnimOf(0, k).currentIteration, AnimOf(0, k).loopCount)

\* C7: the first commit of a PuffPop with animateOnMount=true and visible=true
\* invokes animate(true) exactly once, so onAnimationStart fires exactly once.
C7_MountAnimatesOnce ==
  [][(phase = "constructed" /\ phase' = "mounted"
        /\ props.animateOnMount /\ props.visible)
      => (dir'[0].calls = 1 /\ cb'.start = 1)]_vars

\* C8: after mounting with animateOnMount=false, every change of the visible
\* prop invokes animate(visible).
C8_VisibleChangeAnimates ==
  [][(phase = "mounted" /\ ~props.animateOnMount /\ props'.visible # props.visible)
      => \A i \in Present :
           /\ dir'[i].calls = dir[i].calls + 1
           /\ dir'[i].anims[dir'[i].calls].toVisible = props'.visible]_vars

\* C9: the group-level onAnimationComplete fires at most once per show cycle,
\* and has fired exactly when every child has reported its enter completion.
C9_GroupCompleteOncePerCycle ==
  /\ cycle.completes <= 1
  /\ cycle.completes = 1 <=> cycle.reported = Present

\* C10: the group-level onAnimationStart fires exactly once per show cycle: never
\* twice, and once as soon as the children have animated in.
C10_GroupStartOncePerCycle ==
  /\ cycle.starts <= 1
  /\ (phase # "constructed" /\ props.animateOnMount /\ props.visible) => cycle.starts = 1

\* C11: every change of the group's visible prop (to true and to false) resets
\* completedCount to 0 and hasCalledStart to false before any child callback of
\* the new cycle is counted: after the commit no completion is counted, and the
\* latch is set exactly if child 0 announced its start in that commit.
C11_GroupResetOnVisibleChange ==
  [][(phase = "mounted" /\ props'.visible # props.visible)
      => /\ group'.completedCount = 0
         /\ group'.hasCalledStart = (props'.visible /\ dir'[0].starts > dir[0].starts)]_vars

\* animate(true) calls PuffPop i has made
EnterCalls(i) == {k \in CallIds : k <= dir[i].calls /\ AnimOf(i, k).toVisible}

\* animate(false) calls PuffPop i has made
ExitCalls(i) == {k \in CallIds : k <= dir[i].calls /\ ~AnimOf(i, k).toVisible}

RECURSIVE FiredUpTo(_, _)
\* onAnimationComplete invocations made by the enter animations 1..k of PuffPop i
FiredUpTo(i, k) ==
  IF k = 0 THEN 0
  ELSE FiredUpTo(i, k - 1) + (IF AnimOf(i, k).toVisible THEN AnimOf(i, k).fired ELSE 0)

\* C13: the completion of an exit play-through never invokes
\* onAnimationComplete: no animate(false) animation has fired it, and every
\* invocation counted was made by an enter animation.
C13_ExitNeverReportsComplete ==
  /\ \A k \in ExitCalls(0) : AnimOf(0, k).fired = 0
  /\ cb.complete = FiredUpTo(0, MaxCalls)

\* The host has delivered the completion of an exit play-through
C13_Witness ==
  \E k \in ExitCalls(0) : AnimOf(0, k).status = "idle" /\ AnimOf(0, k).runs = 1

\* C14: when the completion callback of a cancelled loop iteration is delivered
\* (finished=false after stop()), the iteration counter does not advance, no
\* next iteration is started, no loop-delay timer is scheduled and
\* onAnimationComplete is not invoked.
C14_CancelledIterationEndsLoop ==
  [][\A k \in CallIds :
       (AnimOf(0, k).isLoop /\ AnimOf(0, k).status = "stopping"
          /\ dir'[0].anims[k].status # "stopping")
        => /\ dir'[0].anims[k] = [AnimOf(0, k) EXCEPT !.status = "idle"]
           /\ dir'[0].loopTimeoutRef = dir[0].loopTimeoutRef
           /\ cb' = cb]_vars

\* The callback of a cancelled iteration was delivered: the loop started an
\* iteration more than it finished, and is at rest without a timer
C14_Witness ==
  \E k \in CallIds :
    /\ AnimOf(0, k).isLoop
    /\ AnimOf(0, k).status = "idle"
    /\ ~AnimOf(0, k).timer
    /\ AnimOf(0, k).currentIteration >= 1
    /\ AnimOf(0, k).runs = AnimOf(0, k).currentIteration + 1
    /\ AnimOf(0, k).fired = 0

\* C20: measuredHeight is set at most once per mount: once it is non-null no
\* later layout event changes it, also when the event is delivered before the
\* component has re-rendered.
C20_MeasuredHeightSetOnce ==
  [][\A i \in Present :
       dir[i].measuredHeight # << >> => dir'[i].measuredHeight = dir[i].measuredHeight]_vars

\* ------------------------------------------ claims about the composed animation
Built == build.animation # << >>
Composed == build.animation[1]
Cfg == build.cfg
Channels == {Composed.channels[n] : n \in DOMAIN Composed.channels}
ChannelValues == {ch.value : ch \in Channels}
Channel(v) == CHOOSE ch \in Channels : ch.value = v
Transforms == {"scale", "rotate", "translateX", "translateY"}

\* The transform values an effect with flags f animates
FlagValues(f) ==
  {v \in Transforms : \/ v = "scale" /\ f.hasScale
                      \/ v = "rotate" /\ (f.hasRotate \/ f.hasFlip)
                      \/ v = "translateX" /\ f.hasTranslateX
                      \/ v = "translateY" /\ f.hasTranslateY}

\* The effect, duration and easing props that apply to the direction of the call
DirectedEffect == IF build.toVisible THEN Cfg.effect ELSE Opt(Cfg.exitEffect, Cfg.effect)
DirectedDuration == IF build.toVisible THEN Cfg.duration ELSE Opt(Cfg.exitDuration, Cfg.duration)
DirectedEasing == IF build.toVisible THEN Cfg.easing ELSE Opt(Cfg.exitEasing, Cfg.easing)

\* The base target of transform value v for effect eff (override, else the
\* table value under reverse and intensity)
BaseTarget(v, eff) ==
  CASE v = "scale" -> GetInitialScaleValue(Cfg, eff)
    [] v = "rotate" -> GetInitialRotateValue(Cfg, eff)
    [] v = "translateX" -> GetInitialTranslateXValue(Cfg, eff)
    [] v = "translateY" -> GetInitialTranslateYValue(Cfg, eff)

\* The value of transform value v at rest
RestingValue(v) == IF v = "scale" THEN DoubleOne ELSE 0

\* The composed animation uses effect eff (its flags, its base targets when
\* exiting), duration dur on every timed channel and easing eas on the fade
UsesSettings(eff, dur, eas) ==
  /\ ChannelValues \cap Transforms = FlagValues(GetEffectFlags(eff))
  /\ \A v \in ChannelValues \cap Transforms :
       ~build.toVisible => Channel(v).toValue = BaseTarget(v, eff)
  /\ \A ch \in Channels : ch.kind = "timing" => ch.duration = <<dur>>
  /\ Channel("opacity").easing = GetEasing(eas)

\* C15: an enter uses effect, duration and easing; an exit uses exitEffect,
\* exitDuration and exitEasing when each is set and otherwise the enter value;
\* the flags used for an exit are those of the resolved exit effect.
C15_DirectionResolution ==
  Built => UsesSettings(DirectedEffect, DirectedDuration, DirectedEasing)

\* C15 (amended): as above, except that while respectReduceMotion is true and
\* reduce motion is enabled the duration used is 0 in both directions.
C15_DirectionResolutionUnderReduceMotion ==
  Built => UsesSettings(DirectedEffect,
                        IF ReduceMotion(Cfg) THEN 0 ELSE DirectedDuration,
                        DirectedEasing)

\* An exit with exitEffect, exitDuration and exitEasing all supplied, whose exit
\* effect animates other values than the enter effect, without reduce motion
C15_Witness ==
  /\ Built
  /\ ~build.toVisible
  /\ ~ReduceMotion(Cfg)
  /\ Cfg.exitEffect # << >>
  /\ Cfg.exitDuration # << >>
  /\ Cfg.exitEasing # << >>
  /\ GetEffectFlags(Cfg.exitEffect[1]) # GetEffectFlags(Cfg.effect)

\* C16: when exitDelay is not supplied, the exit animation waits the enter delay.
C16_ExitDelayDefaultsToEnterDelay ==
  (Built /\ ~build.toVisible /\ Cfg.exitDelay = << >>) => Composed.delay = Cfg.delay

\* C16 (amended): when exitDelay is not supplied, the exit animation starts
\* without delay (exitDelay defaults to 0), whatever the enter delay is; a
\* supplied exitDelay is the delay of the exit.
C16_ExitDelayDefaultsToZero ==
  (Built /\ ~build.toVisible) =>
    Composed.delay = (IF Cfg.exitDelay = << >> THEN 0 ELSE Cfg.exitDelay[1])

\* An exit composed without exitDelay for a PuffPop whose enter delay is positive
C16_Witness ==
  /\ Built
  /\ ~build.toVisible
  /\ Cfg.exitDelay = << >>
  /\ Cfg.delay > 0

\* C17: when respectReduceMotion is true and reduce motion is enabled, every
\* channel animation animate() starts, enter or exit, with or without
\* useSpring, is an instant transition of duration 0.
C17_ReduceMotionIsInstant ==
  (Built /\ ReduceMotion(Cfg)) =>
    \A ch \in Channels : ch.kind = "timing" /\ ch.duration = <<0>>

\* C18: the opacity channel animates to 1 when entering and to 0 when exiting,
\* whatever the effect; scale, rotate, translateX and translateY are animated
\* exactly if the resolved effect has the matching flag (rotate also for flip),
\* each once, to its resting value when entering and to the effective base
\* target of the resolved effect when exiting.
C18_ChannelsAndTargets ==
  Built =>
    /\ Cardinality(ChannelValues) = Len(Composed.channels)
    /\ "opacity" \in ChannelValues
    /\ Channel("opacity").toValue = (IF build.toVisible THEN One ELSE 0)
    /\ ChannelValues \cap Transforms = FlagValues(GetEffectFlags(DirectedEffect))
    /\ \A v \in ChannelValues \cap Transforms :
         Channel(v).toValue = (IF build.toVisible THEN RestingValue(v)
                                                  ELSE BaseTarget(v, DirectedEffect))

\* An exit through exitEffect "bounce" of a reversed, half-intensity "rotate"
\* PuffPop: scale and translateY are animated to the bounce targets
C18_Witness ==
  /\ Built
  /\ ~build.toVisible
  /\ Cfg.effect = "rotate"
  /\ Cfg.exitEffect = <<"bounce">>
  /\ Cfg.reverse
  /\ ChannelValues = {"opacity", "scale", "translateY"}
  /\ Channel("scale").toValue = <<174483046, 53687092>>
  /\ Channel("translateY").toValue = -1500

\* C19: with skeleton=true every channel animation is accelerated and there is
\* no height channel; with skeleton=false every channel animation is
\* non-accelerated, and a height channel (timing, to measuredHeight on enter and
\* to 0 on exit) is included exactly when a height has been measured.
C19_OneExecutionPath ==
  Built =>
    /\ Cfg.skeleton =>
         /\ \A ch \in Channels : ch.useNativeDriver
         /\ "height" \notin ChannelValues
    /\ ~Cfg.skeleton =>
         /\ \A ch \in Channels : ~ch.useNativeDriver
         /\ "height" \in ChannelValues <=> Cfg.measuredHeight # << >>
         /\ "height" \in ChannelValues =>
              /\ Channel("height").kind = "timing"
              /\ Channel("height").toValue =
                   (IF build.toVisible THEN Cfg.measuredHeight[1] ELSE 0)

\* A spring animation of a measured PuffPop with skeleton=false: the scale
\* channel is a spring, the height channel is present
C19_Witness ==
  /\ Built
  /\ ~Cfg.skeleton
  /\ Cfg.measuredHeight # << >>
  /\ Cfg.useSpring
  /\ "scale" \in ChannelValues
  /\ Channel("scale").kind = "spring"
  /\ "height" \in ChannelValues

\* The non-looping animate(true) calls PuffPop i has made
OnceEnterCalls(i) == {k \in EnterCalls(i) : ~AnimOf(i, k).isLoop}

\* C37: a non-looping animate(true) has invoked onAnimationComplete once the
\* host has delivered the completion callback of its animation, with
\* finished=true or finished=false, and not before; it invokes it once.
C37_OnceEnterAlwaysCompletes ==
  \A k \in OnceEnterCalls(0) :
    /\ AnimOf(0, k).status = "idle" => AnimOf(0, k).fired = 1
    /\ AnimOf(0, k).status # "idle" => AnimOf(0, k).fired = 0

\* Two non-looping enters were started one on top of the other and the host
\* has delivered both callbacks: onAnimationComplete was invoked for each
C37_Witness ==
  \E k \in OnceEnterCalls(0) :
    /\ k + 1 \in OnceEnterCalls(0)
    /\ AnimOf(0, k).status = "idle" /\ AnimOf(0, k).fired = 1
    /\ AnimOf(0, k + 1).status = "idle" /\ AnimOf(0, k + 1).fired = 1
    /\ cb.complete >= 2

\* C38: with a numeric loop value, zero and negative values included, an
\* animate(true) call runs finitely many iterations, as many as the value and
\* at least one, and has invoked onAnimationComplete once the last of them has
\* finished; only loop=true goes on without end.
C38_NumericLoopsTerminate ==
  props.loop.num =>
    \A k \in EnterCalls(0) :
      LET iterations == IF props.loop.val > 1 THEN props.loop.val ELSE 1
      IN /\ AnimOf(0, k).runs <= iterations
         /\ (/\ AnimOf(0, k).isLoop
             /\ AnimOf(0, k).status = "idle"
             /\ AnimOf(0, k).currentIteration = iterations) => AnimOf(0, k).fired = 1

\* The loop-delay timers of PuffPop i that are pending
PendingTimers(i) == {k \in CallIds : AnimOf(i, k).timer}

\* C39: at most one loop-delay timer of a PuffPop is pending, and a pending
\* timer is the one stored in loopTimeoutRef, whatever the order of animate()
\* calls, iteration completions and timer firings.
C39_OneTimerPending ==
  \A i \in Children :
    /\ Cardinality(PendingTimers(i)) <= 1
    /\ \A k \in PendingTimers(i) : dir[i].loopTimeoutRef = k

\* The timer of a second loop is pending; the first loop had finished an
\* iteration and scheduled a timer of its own before
C39_Witness ==
  \E k \in PendingTimers(0) : \E j \in 1..(k - 1) :
    /\ AnimOf(0, j).isLoop
    /\ AnimOf(0, j).currentIteration >= 1
    /\ AnimOf(0, j).loopDelay > 0
    /\ ~AnimOf(0, j).timer

\* C40: once mounted, a PuffPop calls animate() only in a step that changes the
\* visible prop: no other change (the reduce-motion state resolving, the
\* measured height arriving, a new callback or duration) makes a new animate()
\* call or invokes onAnimationStart again.
C40_AnimateOnlyOnVisibleChange ==
  [][(phase = "mounted" /\ props'.visible = props.visible)
       => (dir'[0].calls = dir[0].calls /\ cb'.start = cb.start)]_vars

-----------------------------------------------------------------------------
\* The animated values of one PuffPop played through (SpecPlay)

\* animate() has composed and started an animation
Started == play.cfg # << >> /\ play.stage # "constructed"
\* The delay the playing call resolved for its direction
PlayDelay == Resolve(play.cfg, play.toVisible).delay
\* The channel animations of the playing call
PlayChannels == AnimatedBy(play.animation[1])

\* C21: when the resolved delay of an animate() call is greater than 0, no
\* channel animation of that call has started until the delay has run out;
\* when it is 0 the channel animations start immediately; in both cases they
\* start all together.
C21_DelayBeforeChannels ==
  Started =>
    /\ play.started \in {{}, PlayChannels}
    /\ PlayDelay > 0 => (play.started # {} => play.waited)
    /\ PlayDelay = 0 => (play.started = PlayChannels /\ ~play.waited)

\* An exit with exitDelay 50 whose three channel animations run after the wait
C21_Witness ==
  /\ Started
  /\ ~play.toVisible
  /\ PlayDelay = 50
  /\ play.waited
  /\ play.started = {"opacity", "scale", "translateY"}

\* A loop iteration of the playing call has been started and has not ended
IterationRunning ==
  Started /\ play.toVisible /\ play.loop /\ play.stage \in {"delaying", "playing"}

\* C22: every iteration of a loop, the first one included, begins with the
\* opacity, scale, rotation, translateX and translateY values reset to the
\* effective base values of the enter effect, and with the height reset to 0
\* when a height was measured and skeleton is false, before the composed
\* animation is started.
C22_LoopIterationStartsFromBase ==
  IterationRunning =>
    /\ play.values.opacity = Opt(play.cfg.initialOpacity, 0)
    /\ play.values.scale = GetInitialScaleValue(play.cfg, play.cfg.effect)
    /\ play.values.rotate = GetInitialRotateValue(play.cfg, play.cfg.effect)
    /\ play.values.translateX = GetInitialTranslateXValue(play.cfg, play.cfg.effect)
    /\ play.values.translateY = GetInitialTranslateYValue(play.cfg, play.cfg.effect)
    /\ (~play.cfg.skeleton /\ play.cfg.measuredHeight # << >>) => play.values.height = 0

\* The second iteration of a looping bounce with a measured height: it runs
\* from translateY 30 and height 0
C22_Witness ==
  /\ IterationRunning
  /\ play.runs = 2
  /\ play.stage = "playing"
  /\ play.cfg.effect = "bounce"
  /\ ~play.cfg.skeleton /\ play.cfg.measuredHeight # << >>
  /\ play.values.translateY = 3000
  /\ play.values.height = 0

\* C23: the effective intensity is the intensity clamped to [0, 1]: the
\* intensity itself inside the range, 0 below it and 1 above it, so it is in
\* [0, 1] for every input.
C23_IntensityClamped ==
  play.cfg # << >> =>
    /\ play.clampedIntensity \in 0..FullIntensity
    /\ play.cfg.intensity \in 0..FullIntensity => play.clampedIntensity = play.cfg.intensity
    /\ play.cfg.intensity < 0 => play.clampedIntensity = 0
    /\ play.cfg.intensity > FullIntensity => play.clampedIntensity = FullIntensity

\* An exit of a rotate with intensity 1.1: its rotate channel runs to the full
\* -360 degrees of intensity 1
C23_Witness ==
  /\ Started
  /\ ~play.toVisible
  /\ play.cfg.intensity = 11
  /\ play.clampedIntensity = FullIntensity
  /\ play.stage = "done"
  /\ play.values.rotate = -36000

\* The caller's override of the base value of an animated value, if any
Override(name) ==
  CASE name = "opacity" -> play.cfg.initialOpacity
    [] name = "scale" -> play.cfg.initialScale
    [] name = "rotate" -> play.cfg.initialRotate
    [] name = "translateX" -> play.cfg.initialTranslateX
    [] name = "translateY" -> play.cfg.initialTranslateY

\* The target of the channel animation of the playing call that drives name
PlayTarget(name) ==
  LET a == play.animation[1]
  IN a.channels[CHOOSE k \in DOMAIN a.channels : a.channels[k].value = name].toValue

ConstructedAtBase ==
  /\ play.cfg # << >>
  /\ play.animateOnMount
  /\ play.stage = "constructed"
  /\ play.cfg.initialScale = << >>

\* C25: without an override the base rotation, translateX and translateY are
\* the table value of the effect (negated by reverse) times the effective
\* intensity; at intensity 1 the base scale, rotation and translations are
\* exactly the table values; at intensity 0 they are the resting values, scale 1
\* and the others 0, for every effect.
C25_IntensityScalesTable ==
  ConstructedAtBase =>
    LET c == play.cfg
        v == play.values
    IN /\ v.rotate * FullIntensity = GetInitialRotate(c.effect, c.reverse) * play.clampedIntensity
       /\ v.translateX * FullIntensity =
            GetInitialTranslateX(c.effect, c.reverse) * play.clampedIntensity
       /\ v.translateY * FullIntensity =
            GetInitialTranslateY(c.effect, c.reverse) * play.clampedIntensity
       /\ play.clampedIntensity = FullIntensity =>
            /\ v.scale = GetInitialScale(c.effect, c.reverse)
            /\ v.rotate = GetInitialRotate(c.effect, c.reverse)
            /\ v.translateX = GetInitialTranslateX(c.effect, c.reverse)
            /\ v.translateY = GetInitialTranslateY(c.effect, c.reverse)
       /\ play.clampedIntensity = 0 =>
            /\ v.scale = DoubleOne
            /\ v.rotate = 0 /\ v.translateX = 0 /\ v.translateY = 0

\* C26: for every effect the lookup functions return the base scale, rotation,
\* translateX and translateY of the effect table of the specification (written
\* out below as <<scale, rotation, translateX, translateY>>, in hundredths);
\* reverse=true negates the rotation, translateX and translateY and leaves the
\* scale as it is.
C26_LookupsEqualTable ==
  LET table == [e \in Effects |->
        CASE e = "scale" -> <<DoubleZero, 0, 0, 0>>
          [] e = "rotateScale" -> <<DoubleZero, -18000, 0, 0>>
          [] e = "elastic" -> <<DoubleZero, 0, 0, 0>>
          [] e = "rotate" -> <<DoubleOne, -36000, 0, 0>>
          [] e = "bounce" -> <<Double03, 0, 0, 3000>>
          [] e = "zoom" -> <<Double05, 0, 0, 0>>
          [] e = "flip" -> <<Double08, -18000, 0, 0>>
          [] e = "pulse" -> <<Double06, 0, 0, 0>>
          [] e = "slideUp" -> <<DoubleOne, 0, 0, 5000>>
          [] e = "slideDown" -> <<DoubleOne, 0, 0, -5000>>
          [] e = "slideLeft" -> <<DoubleOne, 0, 10000, 0>>
          [] e = "slideRight" -> <<DoubleOne, 0, -10000, 0>>
          [] e = "shake" -> <<DoubleOne, 0, -1000, 0>>
          [] e = "swing" -> <<DoubleOne, -1500, 0, 0>>
          [] e = "wobble" -> <<DoubleOne, -500, -2500, 0>>
          [] e = "fade" -> <<DoubleOne, 0, 0, 0>>]
  IN (play.cfg # << >> /\ play.cfg.effect \in Effects) =>
       LET e == play.cfg.effect
           sign == IF play.cfg.reverse THEN -1 ELSE 1
       IN /\ GetInitialScale(e, play.cfg.reverse) = table[e][1]
          /\ GetInitialRotate(e, play.cfg.reverse) = sign * table[e][2]
          /\ GetInitialTranslateX(e, play.cfg.reverse) = sign * table[e][3]
          /\ GetInitialTranslateY(e, play.cfg.reverse) = sign * table[e][4]
          /\ ConstructedAtBase /\ play.clampedIntensity = FullIntensity =>
               /\ play.values.rotate = sign * table[e][2]
               /\ play.values.translateX = sign * table[e][3]
               /\ play.values.translateY = sign * table[e][4]

\* A reversed bounce at intensity 1 has exited: it is 30 above its place
C26_Witness ==
  /\ Started
  /\ ~play.toVisible
  /\ play.stage = "done"
  /\ play.cfg.effect = "bounce"
  /\ play.cfg.reverse
  /\ play.cfg.initialTranslateY = << >>
  /\ play.clampedIntensity = FullIntensity
  /\ play.values.translateY = -3000

\* C27: getEffectFlags sets hasScale for scale, bounce, zoom, rotateScale, flip,
\* pulse and elastic, hasRotate for rotate, rotateScale, swing and wobble,
\* hasFlip for flip, hasTranslateX for slideLeft, slideRight, shake and wobble,
\* hasTranslateY for slideUp, slideDown and bounce, and for no other effect; the
\* transform channels of a started animation of the effect are those of the
\* flags.
C27_EffectFlags ==
  (play.cfg # << >> /\ play.cfg.effect \in Effects) =>
    LET e == play.cfg.effect
        f == GetEffectFlags(e)
        scaling == {"scale", "bounce", "zoom", "rotateScale", "flip", "pulse", "elastic"}
        rotating == {"rotate", "rotateScale", "swing", "wobble"}
        flipping == {"flip"}
        movingX == {"slideLeft", "slideRight", "shake", "wobble"}
        movingY == {"slideUp", "slideDown", "bounce"}
    IN /\ f.hasScale <=> e \in scaling
       /\ f.hasRotate <=> e \in rotating
       /\ f.hasFlip <=> e \in flipping
       /\ f.hasTranslateX <=> e \in movingX
       /\ f.hasTranslateY <=> e \in movingY
       /\ (Started /\ (play.toVisible \/ play.cfg.exitEffect = << >>)) =>
            /\ "scale" \in PlayChannels <=> e \in scaling
            /\ "rotate" \in PlayChannels <=> e \in rotating \cup flipping
            /\ "translateX" \in PlayChannels <=> e \in movingX
            /\ "translateY" \in PlayChannels <=> e \in movingY

\* A wobble has entered: opacity, rotation and translateX were animated
C27_Witness ==
  /\ Started
  /\ play.toVisible
  /\ play.stage = "done"
  /\ play.cfg.effect = "wobble"
  /\ PlayChannels \ {"height"} = {"opacity", "rotate", "translateX"}

\* C28: an effect name outside PuffPopEffect behaves as fade: no flag is set,
\* the base scale is 1 and the base rotation and translations are 0, the
\* animated values are constructed as for fade, and the animation composed for
\* it is the one composed for fade, with opacity as its only channel besides
\* the height (unless an exit plays a recognized exitEffect).
C28_UnknownEffectIsFade ==
  (play.cfg # << >> /\ play.cfg.effect \notin Effects) =>
    LET c == play.cfg
        f == GetEffectFlags(c.effect)
        asFade == [c EXCEPT !.effect = "fade"]
    IN /\ ~f.hasScale /\ ~f.hasRotate /\ ~f.hasFlip
       /\ ~f.hasTranslateX /\ ~f.hasTranslateY
       /\ GetInitialScale(c.effect, c.reverse) = DoubleOne
       /\ GetInitialRotate(c.effect, c.reverse) = 0
       /\ GetInitialTranslateX(c.effect, c.reverse) = 0
       /\ GetInitialTranslateY(c.effect, c.reverse) = 0
       /\ play.stage = "constructed" =>
            play.values = ConstructValues(asFade, play.animateOnMount)
       /\ Started => play.animation[1] = ComposeAnimation(asFade, play.toVisible)
       /\ (Started /\ (play.toVisible \/ c.exitEffect = << >>)) =>
            PlayChannels \ {"height"} = {"opacity"}

\* An unknown effect has entered in skeleton mode: only the opacity was
\* animated, the scale stayed at 1
C28_Witness ==
  /\ Started
  /\ play.toVisible
  /\ play.stage = "done"
  /\ play.cfg.effect = "unknown"
  /\ play.cfg.initialScale = << >>
  /\ PlayChannels = {"opacity"}
  /\ play.values.opacity = One
  /\ play.values.scale = DoubleOne

\* An enter play-through of the PuffPop whose values are followed
Entering == Started /\ play.toVisible
\* The effective base value of an animated value for the enter effect
EnterBase(name) ==
  CASE name = "opacity" -> GetInitialOpacityValue(play.cfg)
    [] name = "scale" -> GetInitialScaleValue(play.cfg, play.cfg.effect)
    [] name = "rotate" -> GetInitialRotateValue(play.cfg, play.cfg.effect)
    [] name = "translateX" -> GetInitialTranslateXValue(play.cfg, play.cfg.effect)
    [] name = "translateY" -> GetInitialTranslateYValue(play.cfg, play.cfg.effect)
\* The resting value of an animated value
Resting(name) ==
  CASE name = "opacity" -> One
    [] name = "scale" -> DoubleOne
    [] OTHER -> 0

\* C35: every enter play-through, the one on mount and the ones after visible
\* has changed back to true, looping or not and whatever exitEffect is, starts
\* each channel of the enter effect at the effective base value of that effect
\* and ends it at its resting value.
C35_EnterRunsFromBaseToRest ==
  Entering =>
    \A name \in PlayChannels \ {"height"} :
      /\ play.from[name] = EnterBase(name)
      /\ play.stage = "done" => play.values[name] = Resting(name)

\* C36: whenever an enter play-through has ended with finished=true and
\* nothing is in flight, opacity is 1, scale 1, rotation 0, translateX 0 and
\* translateY 0, for every effect, exitEffect and reverse and after any
\* changes of visible before it.
C36_RestingAfterEnter ==
  (Entering /\ play.stage = "done") =>
    \A name \in {"opacity", "scale", "rotate", "translateX", "translateY"} :
      play.values[name] = Resting(name)

-----------------------------------------------------------------------------
\* The stagger delays of a PuffPopGroup (SpecStagger)

\* The group has rendered all its children
AllRendered == stagger.childCount > 0 /\ Len(stagger.delays) = stagger.childCount

\* C29: the enter delay of the child at index is initialDelay + k * staggerDelay
\* with k = index (forward), childCount - 1 - index (reverse), |index - c|
\* (center) and c - |index - c| (edges), c = (childCount - 1) / 2; edges with 5
\* children, staggerDelay 10 and initialDelay 0 gives 0, 10, 20, 10, 0. Both
\* sides are in half milliseconds, so twice c is childCount - 1.
C29_StaggerDelays ==
  stagger.childCount > 0 =>
    /\ \A n \in 1..Len(stagger.delays) :
         LET index == n - 1
             twiceC == stagger.childCount - 1
             twiceK == CASE stagger.staggerDirection = "forward" -> 2 * index
                         [] stagger.staggerDirection = "reverse" ->
                              2 * (stagger.childCount - 1 - index)
                         [] stagger.staggerDirection = "center" -> Abs(2 * index - twiceC)
                         [] stagger.staggerDirection = "edges" ->
                              twiceC - Abs(2 * index - twiceC)
         IN stagger.delays[n] = 2 * stagger.initialDelay + twiceK * stagger.staggerDelay
    /\ (/\ AllRendered
        /\ stagger.staggerDirection = "edges"
        /\ stagger.childCount = 5
        /\ stagger.staggerDelay = 10
        /\ stagger.initialDelay = 0) => stagger.delays = <<0, 20, 40, 20, 0>>

\* Four children rendered from the center with staggerDelay 25: the delays are
\* 37.5, 12.5, 12.5, 37.5 after the initial 200
C29_Witness ==
  /\ AllRendered
  /\ stagger.staggerDirection = "center"
  /\ stagger.childCount = 4
  /\ stagger.staggerDelay = 25
  /\ stagger.initialDelay = 200
  /\ stagger.delays = <<475, 425, 425, 475>>

\* C30: in every stagger direction the smallest enter delay over the children
\* of a group is initialDelay, for every childCount >= 1, even or odd.
C30_FirstChildAtInitialDelay ==
  AllRendered =>
    /\ \E n \in 1..stagger.childCount : stagger.delays[n] = stagger.initialDelay * PerMs
    /\ \A n \in 1..stagger.childCount : stagger.delays[n] >= stagger.initialDelay * PerMs

\* The group of the state, staggered in direction d
Directed(d) == [stagger EXCEPT !.staggerDirection = d]
\* The indexes of the children of the group
Indexes == 0..(stagger.childCount - 1)

\* C31: for the childCount, staggerDelay and initialDelay of a group, the
\* center delay and the edges delay of a child add up to the same sum for
\* every child; a group rendered in one of the two directions has handed out
\* delays that add up to that sum with the delays of the other direction.
C31_CenterMirrorsEdges ==
  stagger.childCount > 0 =>
    LET total == GetChildDelay(Directed("center"), 0) + GetChildDelay(Directed("edges"), 0)
    IN /\ \A i \in Indexes :
            GetChildDelay(Directed("center"), i) + GetChildDelay(Directed("edges"), i) = total
       /\ stagger.staggerDirection = "center" =>
            \A n \in 1..Len(stagger.delays) :
              stagger.delays[n] + GetChildDelay(Directed("edges"), n - 1) = total
       /\ stagger.staggerDirection = "edges" =>
            \A n \in 1..Len(stagger.delays) :
              stagger.delays[n] + GetChildDelay(Directed("center"), n - 1) = total

\* Four children rendered from the edges with staggerDelay 100: 0, 100, 100, 0;
\* from the center they get 150, 50, 50, 150
C31_Witness ==
  /\ AllRendered
  /\ stagger.staggerDirection = "edges"
  /\ stagger.childCount = 4
  /\ stagger.staggerDelay = 100
  /\ stagger.initialDelay = 0
  /\ stagger.delays = <<0, 200, 200, 0>>
  /\ GetChildDelay(Directed("center"), 0) = 300

\* C32: the forward delay of the child at index i is the reverse delay of the
\* child at index childCount - 1 - i, for every child of a group.
C32_ForwardMirrorsReverse ==
  stagger.childCount > 0 =>
    /\ \A i \in Indexes :
         GetChildDelay(Directed("forward"), i) =
           GetChildDelay(Directed("reverse"), stagger.childCount - 1 - i)
    /\ stagger.staggerDirection = "reverse" =>
         \A n \in 1..Len(stagger.delays) :
           stagger.delays[n] = GetChildDelay(Directed("forward"), stagger.childCount - n)
    /\ stagger.staggerDirection = "forward" =>
         \A n \in 1..Len(stagger.delays) :
           stagger.delays[n] = GetChildDelay(Directed("reverse"), stagger.childCount - n)

\* Three children rendered in reverse with staggerDelay 10 after 200: the
\* last one starts first
C32_Witness ==
  /\ AllRendered
  /\ stagger.staggerDirection = "reverse"
  /\ stagger.childCount = 3
  /\ stagger.staggerDelay = 10
  /\ stagger.initialDelay = 200
  /\ stagger.delays = <<440, 420, 400>>

\* C33: with exitStaggerDelay 0 every child gets exitDelay (0 when not
\* supplied) as its exit delay whatever exitStaggerDirection is; otherwise the
\* child at index gets exitDelay + k * exitStaggerDelay, k being the k of the
\* enter delays for the direction exitStaggerDirection, reverse when not
\* supplied.
C33_ExitStagger ==
  stagger.childCount > 0 =>
    \A n \in 1..Len(stagger.exitDelays) :
      LET flat == IF stagger.exitDelay = << >> THEN 0 ELSE stagger.exitDelay[1]
          asEnter == [childCount |-> stagger.childCount,
                      staggerDelay |-> stagger.exitStaggerDelay,
                      initialDelay |-> flat,
                      staggerDirection |->
                        IF stagger.exitStaggerDirection = << >> THEN "reverse"
                        ELSE stagger.exitStaggerDirection[1]]
      IN /\ stagger.exitStaggerDelay = 0 => stagger.exitDelays[n] = flat * PerMs
         /\ stagger.exitStaggerDelay # 0 =>
              stagger.exitDelays[n] = GetChildDelay(asEnter, n - 1)

\* Three children with exitDelay 30 and exitStaggerDelay 50, no direction
\* given: the last child leaves first
C33_Witness ==
  /\ AllRendered
  /\ stagger.childCount = 3
  /\ stagger.exitDelay = <<30>>
  /\ stagger.exitStaggerDelay = 50
  /\ stagger.exitStaggerDirection = << >>
  /\ stagger.exitDelays = <<260, 160, 60>>

-----------------------------------------------------------------------------
\* The transform style of a rendered PuffPop (SpecView)

\* The positions of the transform style that hold a fixed translation
FixedAt == {k \in DOMAIN view.transform : ~view.transform[k].animated}
\* The positions that hold the animated scale, rotate or flip (rotateY)
PivotedAt ==
  {k \in DOMAIN view.transform :
     view.transform[k].animated /\ view.transform[k].kind \in {"scale", "rotate", "rotateY"}}
\* The positions that hold the animated translateX or translateY of the effect
MovedAt ==
  {k \in DOMAIN view.transform :
     view.transform[k].animated /\ view.transform[k].kind \in {"translateX", "translateY"}}
\* The positions of the fixed translations along an axis by an amount
FixedBy(kind, by) == {k \in FixedAt : view.transform[k] = Fixed(kind, by)}

\* C34: the anchor offset is the fraction of the anchor point (-0.5 for left
\* and top, 0.5 for right and bottom, 0 otherwise, per axis) times the measured
\* height, or times 100 when no height is measured (the model counts in
\* halves).  If anchorPoint is not center and the enter effect has a scale,
\* rotate or flip capability, the scale/rotate/flip entries of the transform
\* stand between one translation by -offset before them and one by +offset
\* after them, on each axis whose offset is not 0, and before the effect's own
\* translations; otherwise the transform has no such translation.
C34_AnchorWrapping ==
  view.rendered =>
    LET a == view.anchorPoint
        fx == IF a \in {"left", "topLeft", "bottomLeft"} THEN -1
              ELSE IF a \in {"right", "topRight", "bottomRight"} THEN 1 ELSE 0
        fy == IF a \in {"top", "topLeft", "topRight"} THEN -1
              ELSE IF a \in {"bottom", "bottomLeft", "bottomRight"} THEN 1 ELSE 0
        base == IF view.measuredHeight = << >> THEN 100 ELSE view.measuredHeight[1]
        wrapped == a # "center" /\ view.effect \in
                     {"scale", "bounce", "zoom", "rotateScale", "flip", "pulse", "elastic",
                      "rotate", "swing", "wobble"}
        Wraps(kind, by) ==
          IF by = 0 THEN \A k \in FixedAt : view.transform[k].kind # kind
          ELSE /\ Cardinality(FixedBy(kind, -by)) = 1
               /\ Cardinality(FixedBy(kind, by)) = 1
               /\ \A k \in FixedBy(kind, -by) : \A q \in PivotedAt : k < q
               /\ \A k \in FixedBy(kind, by) :
                    /\ \A q \in PivotedAt : q < k
                    /\ \A q \in MovedAt : k < q
    IN /\ view.anchorOffset = [x |-> fx * base, y |-> fy * base]
       /\ wrapped => (PivotedAt # {} /\ Wraps("translateX", fx * base)
                                     /\ Wraps("translateY", fy * base))
       /\ ~wrapped => FixedAt = {}

\* A bounce anchored at its top left corner with a measured height of 60: the
\* scale stands between translations by (30, 30) and (-30, -30), the effect's
\* translateY comes last
C34_Witness ==
  /\ view.rendered
  /\ view.effect = "bounce"
  /\ view.anchorPoint = "topLeft"
  /\ view.measuredHeight = <<60>>
  /\ view.transform = <<Fixed("translateX", 60), Fixed("translateY", 60), Animated("scale"),
                        Fixed("translateX", -60), Fixed("translateY", -60),
                        Animated("translateY")>>

====
